---- MODULE Spec2Model ----
(***************************************************************************)
(* A model of the rustos kernel core (gcidart/rustos).                     *)
(*                                                                         *)
(*   Part 1  bin allocator        kern/src/allocator/{bin,util}.rs         *)
(*   Part 2  process scheduler    kern/src/process/{scheduler,process}.rs  *)
(*           exception handling   kern/src/traps.rs, kern/src/traps/*.rs   *)
(*   Part 3  user page tables     kern/src/vm/pagetable.rs                 *)
(*           program loader       kern/src/process/process.rs              *)
(*   Part 4  XMODEM               lib/xmodem/src/lib.rs                    *)
(*   Part 5  sector cache         lib/fat32/src/vfat/cache.rs              *)
(*                                                                         *)
(* Each part has its own variables, initial predicate and next-state       *)
(* relation; a specification of one part leaves the other parts' variables *)
(* unchanged.                                                              *)
(***************************************************************************)
EXTENDS Integers, Sequences, FiniteSets, TLC

VARIABLES
    \* ---- bin allocator (struct Allocator, bin.rs:34-38) ----
    current,    \* Allocator.current: the bump cursor
    end,        \* Allocator.end: the end of the bump region
    bins,       \* Allocator.bins: NUM_BINS free lists, head first
    \* ---- allocator: observation of the calls made so far ----
    region,     \* the <<start, end>> given to Allocator::new
    live,       \* blocks returned by alloc and not yet given to dealloc
    last,       \* the latest call: kind, layout, pointer returned / freed
    prev,       \* the call before the latest
    pre,        \* current, end and bins as they were before the latest call
    panicked,   \* the latest call panicked (the kernel halts)
    nops,       \* number of calls made
    \* ---- scheduler (struct Scheduler, scheduler.rs:184-187) ----
    processes,  \* Scheduler.processes: the queue, front first
    last_id,    \* Scheduler.last_id
    \* ---- the cores that call into the scheduler ----
    tf,         \* per core: the live trap frame
    pc,         \* per core: where the core is ("boot", "user", "switch_to",
                \* "shell", "wfi")
    now,        \* pi::timer::current_time(), in clock ticks (TicksPerMs a
                \* millisecond)
    \* ---- scheduler: observation of the calls made so far ----
    sret,       \* the latest scheduler call and what it returned
    killed,     \* Ids that kill has returned
    rr,         \* the run of successive switch(Ready, tf) calls being observed
    trap,       \* per core: the switch under way (who called it, for which
                \* process) and the debug shell handle_exception has open
    \* ---- virtual memory (struct UserPageTable, pagetable.rs:260) ----
    vmap,       \* the L3 entries of the user page table at hand
    heap,       \* ALLOCATOR as the page table sees it: the free list and the
                \* bump cursor of the size class of Page::layout()
    \* ---- virtual memory: observation of the calls made so far ----
    vmobs,      \* the latest call, what it returned, the pages handed out
                \* for the table and the pages given back
    \* ---- virtual memory (struct KernPageTable, pagetable.rs:207) ----
    kern,       \* the kernel page table: whether it is built, the end of
                \* memory it was built for, its L3 entries
    \* ---- XMODEM receiver (struct Xmodem, xmodem/src/lib.rs:23-28) ----
    xmodem,     \* Xmodem.packet (the expected packet number), Xmodem.started
    \* ---- XMODEM receiver: observation of the calls made so far ----
    xmobs,      \* the latest read_packet: what the line held, what was
                \* returned and written, the packet number before
    \* ---- sector cache (struct CachedPartition, cache.rs:24-28) ----
    cache,      \* CachedPartition.cache: the entry of each cached sector
    cobs,       \* the latest call on the cache and what it returned
    \* ---- the scheduler's lock (GlobalScheduler.0, scheduler.rs:25) ----
    mutex,      \* the core that holds the Mutex around the Scheduler, or NONE
    \* ---- XMODEM: a transmit paired with a receive (lib.rs:51-118) ----
    link        \* the sender's data, the two Xmodem structs, how far each
                \* side has got, and the bytes in flight in either direction

allocVars == <<current, end, bins, region, live, last, prev, pre, panicked, nops>>

schedVars == <<processes, last_id, tf, pc, now, sret, killed, rr, trap>>

vmVars == <<vmap, heap, vmobs, kern>>

xmVars == <<xmodem, xmobs>>

fsVars == <<cache, cobs>>

lockVars == <<mutex>>

\* the variables of the libraries (Parts 4 and 5) and the scheduler's lock
linkVars == <<link>>

libVars == <<xmVars, fsVars, lockVars, linkVars>>

vars == <<allocVars, schedVars, vmVars, libVars>>

(***************************************************************************)
(* Machine words.  usize is modelled UsizeBits wide: TLC's integers are    *)
(* 32 bits, so the 64-bit address space is scaled down, keeping every      *)
(* size class and the 64 KiB page layout below USIZE_MAX.                  *)
(***************************************************************************)
UsizeBits == 18
USIZE_MAX == 2^UsizeBits - 1

\* usize::count_ones
RECURSIVE count_ones(_)
count_ones(n) == IF n = 0 THEN 0 ELSE (n % 2) + count_ones(n \div 2)

\* usize::saturating_add
saturating_add(a, b) == IF a + b > USIZE_MAX THEN USIZE_MAX ELSE a + b

\* the wrapping `+=` of a release build
wrapping_add(a, b) == (a + b) % (USIZE_MAX + 1)

(***************************************************************************)
(* Part 1: the bin allocator                                               *)
(***************************************************************************)
NUM_BINS == 11

\* the null pointer, core::ptr::null_mut()
NULL == 0

\* bin.rs:26-31, the loop of bin_index
RECURSIVE bin_index_loop(_, _, _)
bin_index_loop(idx, bin_size, size_req) ==
    IF idx < NUM_BINS - 1 /\ size_req > bin_size
    THEN bin_index_loop(idx + 1, bin_size * 2, size_req)
    ELSE idx

\* bin.rs:19-33
bin_index(size, align) ==
    bin_index_loop(0, 8, IF align > size THEN align ELSE size)

\* bin.rs:82-87, the class size of bin bidx, as alloc computes it
RECURSIVE size_req_loop(_, _)
size_req_loop(bidxc, size_req) ==
    IF bidxc > 0 THEN size_req_loop(bidxc - 1, size_req * 2) ELSE size_req

class_size(bidx) == size_req_loop(bidx, 8)

\* util.rs:25-38.  The result of align_up, and whether it panics: when
\* `align` is no power of two, or when the addition overflows (a debug build
\* panics at the `+=`, a release build wraps and panics at the comparison).
align_up_val(addr, align) ==
    LET rem == addr % align
    IN  IF rem # 0 THEN wrapping_add(addr, align - rem) ELSE addr

align_up_panics(addr, align) ==
    \/ count_ones(align) > 1
    \/ align_up_val(addr, align) < addr

\* LinkedList::push / pop / is_empty (allocator/linked_list.rs): an intrusive
\* singly linked list; push links the node in at the head, pop unlinks the head.
list_push(list, ptr) == <<ptr>> \o list
list_peek(list) == Head(list)
list_pop(list) == Tail(list)

NoCall == [kind |-> "none", size |-> 0, align |-> 0, ptr |-> NULL]

\* Regions given to Allocator::new, and the layouts the callers ask for.
Regions ==
    { <<8, 32>>,                          \* a few blocks, unaligned start
      <<4096, 20480>>,                    \* [0x1000, 0x5000), 16 KiB
      <<USIZE_MAX - 27, USIZE_MAX - 7>> } \* the top of the address space

Layouts ==
    { <<8, 8>>, <<16, 16>>, <<8192, 8192>>, <<65536, 65536>>,
      <<0, 8>>,     \* zero size
      <<8, 3>> }    \* alignment that is no power of two

MaxOps == 5

\* bin.rs:43-49, Allocator::new(r[1], r[2]), and nothing called yet
new_at(r) ==
    /\ region = r
    /\ current = region[1]
    /\ end = region[2]
    /\ bins = [k \in 0 .. NUM_BINS - 1 |-> <<>>]
    /\ live = {}
    /\ last = NoCall
    /\ prev = NoCall
    /\ pre = [current |-> region[1], end |-> region[2],
              bins |-> [k \in 0 .. NUM_BINS - 1 |-> <<>>]]
    /\ panicked = FALSE
    /\ nops = 0

InitAlloc == \E r \in Regions : new_at(r)

\* What every call records.
Observe(kind, size, align, ptr) ==
    /\ prev' = last
    /\ last' = [kind |-> kind, size |-> size, align |-> align, ptr |-> ptr]
    /\ pre' = [current |-> current, end |-> end, bins |-> bins]
    /\ nops' = nops + 1

Returned(size, align, ptr) ==
    live' = IF ptr = NULL THEN live
            ELSE live \cup {[addr |-> ptr, size |-> size, align |-> align]}

\* bin.rs:81-104, the bump path of alloc
alloc_bump(size, align, bidx) ==
    LET size_req == class_size(bidx)
        orig     == current
    IN  IF align_up_panics(current, size_req)
        THEN /\ panicked' = TRUE
             /\ Observe("alloc", size, align, NULL)
             /\ UNCHANGED <<current, end, bins, live>>
        ELSE LET start == align_up_val(current, size_req)
                 cur2  == saturating_add(start, size_req)
             IN  IF cur2 > end
                 THEN /\ current' = orig
                      /\ Observe("alloc", size, align, NULL)
                      /\ UNCHANGED <<end, bins, live, panicked>>
                 ELSE /\ IF start - orig > end - cur2
                         THEN /\ end' = cur2 - 1
                              /\ current' = orig
                         ELSE /\ current' = cur2
                              /\ end' = end
                      /\ Observe("alloc", size, align, start)
                      /\ Returned(size, align, start)
                      /\ UNCHANGED <<bins, panicked>>

\* bin.rs:74-106, Allocator::alloc
alloc(size, align) ==
    IF size <= 0 \/ count_ones(align) > 1
    THEN /\ Observe("alloc", size, align, NULL)
         /\ UNCHANGED <<current, end, bins, live, panicked>>
    ELSE LET bidx == bin_index(size, align)
         IN  IF bins[bidx] # <<>>
             THEN /\ bins' = [bins EXCEPT ![bidx] = list_pop(@)]
                  /\ Observe("alloc", size, align, list_peek(bins[bidx]))
                  /\ Returned(size, align, list_peek(bins[bidx]))
                  /\ UNCHANGED <<current, end, panicked>>
             ELSE alloc_bump(size, align, bidx)

\* a dealloc that files the block under the neighbouring size class
dealloc_wrong_bin(ptr, size, align) ==
    /\ bins' = [bins EXCEPT ![(bin_index(size, align) + 1) % NUM_BINS] = list_push(@, ptr)]
    /\ live' = live \ {[addr |-> ptr, size |-> size, align |-> align]}
    /\ Observe("dealloc", size, align, ptr)
    /\ UNCHANGED <<current, end, panicked>>

\* bin.rs:121-124, Allocator::dealloc
dealloc(ptr, size, align) ==
    /\ bins' = [bins EXCEPT ![bin_index(size, align)] = list_push(@, ptr)]
    /\ live' = live \ {[addr |-> ptr, size |-> size, align |-> align]}
    /\ Observe("dealloc", size, align, ptr)
    /\ UNCHANGED <<current, end, panicked>>

Alloc ==
    /\ ~panicked
    /\ nops < MaxOps
    /\ \E l \in Layouts : alloc(l[1], l[2])
    /\ UNCHANGED <<region, schedVars, vmVars, libVars>>

\* dealloc is given a live block with the layout it was allocated with
Dealloc ==
    /\ ~panicked
    /\ nops < MaxOps
    /\ \E b \in live : dealloc(b.addr, b.size, b.align)
    /\ UNCHANGED <<region, schedVars, vmVars, libVars>>

NextAlloc == Alloc \/ Dealloc

(***************************************************************************)
(* Part 2: the process scheduler                                           *)
(***************************************************************************)
\* Id is u64 (process.rs:16); u64::MAX, the last Id add can assign, is scaled
\* down to U64_MAX.
U64_MAX == 3

\* u64::checked_add(1): NONE on overflow.  NONE also stands for Option::None
\* where an Option<Id> is returned.
NONE == -1
checked_add(id, n) == IF id + n > U64_MAX THEN NONE ELSE id + n

Cores == {0, 1}

\* State (process/state.rs): Ready, Running, Waiting(EventPollFn), Dead.
Ready   == [kind |-> "Ready"]
Running == [kind |-> "Running"]
Dead    == [kind |-> "Dead"]
Waiting(poll) == [kind |-> "Waiting", poll |-> poll]

\* Time.  current_time() is a Duration; the clock of the model ticks
\* TicksPerMs times a millisecond, so that a Duration need not be a whole
\* number of milliseconds.
TicksPerMs == 2
\* Duration::from_millis, as_millis, as_secs, subsec_nanos
from_millis(ms) == ms * TicksPerMs
as_millis(t) == t \div TicksPerMs
as_secs(t) == t \div (1000 * TicksPerMs)
subsec_nanos(t) == ((t % (1000 * TicksPerMs)) * 1000000) \div TicksPerMs

\* The poll functions a process waits on: the closure sys_sleep builds, and
\* a poll that returns false on every invocation.
PollNever == [kind |-> "never"]

\* a sleep closure that forgets the duration asked for
sleep_fn_no_dur(ini_time, ms) ==
    [kind |-> "sleep", ini_time |-> ini_time, sleep_dur |-> 0, ms |-> ms]

\* syscall.rs:19-31, the closure of sys_sleep(ms) called at time ini_time:
\* it captures ini_time and sleep_dur = Duration::from_millis(ms); ms itself
\* is kept with it for the record
sleep_fn(ini_time, ms) ==
    [kind |-> "sleep", ini_time |-> ini_time, sleep_dur |-> from_millis(ms),
     ms |-> ms]

\* an EventPollFn is FnMut: a poll that counts its invocations and returns
\* true from the until-th one on
count_fn(calls, until) == [kind |-> "count", calls |-> calls, until |-> until]

\* what invoking the poll returns at time t
poll_fn(poll, t) ==
    CASE poll.kind = "never" -> FALSE
      [] poll.kind = "sleep" -> t > poll.ini_time + poll.sleep_dur
      [] poll.kind = "count" -> poll.calls + 1 >= poll.until

\* the poll (its captured state) after one invocation
poll_next(poll) ==
    CASE poll.kind = "never" -> poll
      [] poll.kind = "sleep" -> poll
      [] poll.kind = "count" -> [poll EXCEPT !.calls = @ + 1]

\* a sleep closure that writes the elapsed time to x1 as well
poll_effect_writes_x1(poll, p, t) ==
    CASE poll.kind = "never" -> p
      [] poll.kind = "count" -> p
      [] poll.kind = "sleep" ->
            [p EXCEPT !.context.x7 = 1,
                      !.context.x0 = as_millis(t) - as_millis(poll.ini_time),
                      !.context.x1 = 1 + as_millis(t) - as_millis(poll.ini_time)]

\* what invoking the poll at time t does to the process it is given: the
\* closure of sys_sleep writes x7 and x0 on every invocation (syscall.rs:23-24)
poll_effect(poll, p, t) ==
    CASE poll.kind = "never" -> p
      [] poll.kind = "count" -> p
      [] poll.kind = "sleep" ->
            [p EXCEPT !.context.x7 = 1,
                      !.context.x0 = as_millis(t) - as_millis(poll.ini_time)]

\* TrapFrame::default(): every register zero (frame.rs:4-15); of the general
\* registers the kernel itself writes x0, x1 and x7
DefaultFrame ==
    [elr_el1 |-> 0, spsr_el1 |-> 0, tpidr_el0 |-> 0, x0 |-> 0, x1 |-> 0, x7 |-> 0]

\* The address a user image is mapped at (process.rs:66), scaled down; kernel
\* code lies below it.
USER_IMG_BASE == 64
\* SPSR_EL1 of a new process (process.rs:69-71): D, A and F masked, mode
\* field M[3:0] = 0, EL0t
SPSR_USER == 2^9 + 2^8 + 2^6
\* SPSR_EL1 as the hardware saves it for an exception taken from the
\* exception handler itself: D, A, I and F masked, M[3:0] = 5, EL1h
SPSR_EL1H == 2^9 + 2^8 + 2^7 + 2^6 + 5
\* the exception level an eret with this saved status returns to (M[3:2])
el_of(spsr) == (spsr % 16) \div 4

\* a process as Process::load returns it (process.rs:62-74, 101-105)
NewProcess ==
    [context |-> [DefaultFrame EXCEPT !.elr_el1 = USER_IMG_BASE,
                                      !.spsr_el1 = SPSR_USER],
     state |-> Ready]

\* an is_ready that takes every Waiting process for ready, whatever its poll says
is_ready_ignoring_poll(p, t) ==
    IF p.state.kind = "Waiting"
    THEN [poll_effect(p.state.poll, p, t) EXCEPT !.state = Ready]
    ELSE p

\* an is_ready that invokes the poll a second time when the first returned false
is_ready_polls_twice(p, t) ==
    IF p.state.kind = "Waiting"
    THEN IF poll_fn(p.state.poll, t)
         THEN [poll_effect(p.state.poll, p, t) EXCEPT !.state = Ready]
         ELSE IF poll_fn(poll_next(p.state.poll), t)
              THEN [poll_effect(p.state.poll, p, t) EXCEPT !.state = Ready]
              ELSE [poll_effect(p.state.poll, p, t) EXCEPT
                       !.state = Waiting(poll_next(poll_next(p.state.poll)))]
    ELSE p

\* process.rs:156-171, Process::is_ready at time t: the process afterwards,
\* and the value returned
is_ready_after(p, t) ==
    IF p.state.kind = "Waiting"
    THEN IF poll_fn(p.state.poll, t)
         THEN [poll_effect(p.state.poll, p, t) EXCEPT !.state = Ready]
         ELSE [poll_effect(p.state.poll, p, t) EXCEPT
                  !.state = Waiting(poll_next(p.state.poll))]
    ELSE p

\* an is_ready that is also true of a Running process
is_ready_running_too(p, t) == is_ready_after(p, t).state \in {Ready, Running}

is_ready(p, t) == is_ready_after(p, t).state = Ready

\* VecDeque::remove(idx) (1-based here), push_back, push_front, pop_back
remove(q, idx) == [i \in 1 .. Len(q) - 1 |-> IF i < idx THEN q[i] ELSE q[i + 1]]
push_back(q, p) == Append(q, p)
push_front(q, p) == <<p>> \o q
pop_back(q) == SubSeq(q, 1, Len(q) - 1)

\* the first index at which the sequence of truth values hit is TRUE,
\* Len(hit)+1 when there is none: the `idx` the two search loops compute
\* (scheduler.rs:230-245, 264-273), hit[i] telling whether the loop breaks at
\* the i-th process
first_index(hit) ==
    LET S == {i \in 1 .. Len(hit) : hit[i]}
    IN  IF S = {} THEN Len(hit) + 1 ELSE CHOOSE i \in S : \A j \in S : i <= j

\* an add whose Id wraps around instead of being refused
add_wrapping(q, lid, process) ==
    LET new_lid == (lid + 1) % (U64_MAX + 1)
    IN  [id |-> new_lid,
         processes |-> push_back(q, [process EXCEPT !.context.tpidr_el0 = new_lid]),
         last_id |-> new_lid]

\* an add that puts the new process at the front of the queue
add_push_front(q, lid, process) ==
    LET new_lid == IF lid = NONE THEN 1 ELSE checked_add(lid, 1)
    IN  IF new_lid = NONE
        THEN [id |-> NONE, processes |-> q, last_id |-> lid]
        ELSE [id |-> new_lid,
              processes |-> push_front(q, [process EXCEPT !.context.tpidr_el0 = new_lid]),
              last_id |-> new_lid]

\* scheduler.rs:205-220, Scheduler::add: the Id returned, the queue and
\* last_id afterwards
add(q, lid, process) ==
    LET new_lid == IF lid = NONE THEN 1 ELSE checked_add(lid, 1)
    IN  IF new_lid = NONE
        THEN [id |-> NONE, processes |-> q, last_id |-> lid]
        ELSE [id |-> new_lid,
              processes |-> push_back(q, [process EXCEPT !.context.tpidr_el0 = new_lid]),
              last_id |-> new_lid]


\* a schedule_out that takes the first Running process, whatever its Id
schedule_out_first_running(q, new_state, frame) ==
    LET Current(p) == p.state = Running
        idx == first_index([i \in 1 .. Len(q) |-> Current(q[i])])
    IN  IF Len(q) + 1 = idx
        THEN [ok |-> FALSE, processes |-> q]
        ELSE [ok |-> TRUE,
              processes |-> push_back(remove(q, idx),
                               [context |-> frame, state |-> new_state])]

\* a schedule_out that moves the process to the tail without saving the frame
schedule_out_stale_frame(q, new_state, frame) ==
    LET Current(p) == p.context.tpidr_el0 = frame.tpidr_el0 /\ p.state = Running
        idx == first_index([i \in 1 .. Len(q) |-> Current(q[i])])
    IN  IF Len(q) + 1 = idx
        THEN [ok |-> FALSE, processes |-> q]
        ELSE [ok |-> TRUE,
              processes |-> push_back(remove(q, idx),
                               [context |-> q[idx].context, state |-> new_state])]

\* a schedule_out that leaves the current process where it is in the queue
schedule_out_in_place(q, new_state, frame) ==
    LET Current(p) == p.context.tpidr_el0 = frame.tpidr_el0 /\ p.state = Running
        idx == first_index([i \in 1 .. Len(q) |-> Current(q[i])])
    IN  IF Len(q) + 1 = idx
        THEN [ok |-> FALSE, processes |-> q]
        ELSE [ok |-> TRUE,
              processes |-> [q EXCEPT ![idx] = [context |-> frame, state |-> new_state]]]

\* scheduler.rs:229-254, Scheduler::schedule_out: the value returned and the
\* queue afterwards
schedule_out(q, new_state, frame) ==
    LET Current(p) == p.context.tpidr_el0 = frame.tpidr_el0 /\ p.state = Running
        idx == first_index([i \in 1 .. Len(q) |-> Current(q[i])])
    IN  IF Len(q) + 1 = idx
        THEN [ok |-> FALSE, processes |-> q]
        ELSE [ok |-> TRUE,
              processes |-> push_back(remove(q, idx),
                               [context |-> frame, state |-> new_state])]

\* a switch_to that puts the selected process at the tail
switch_to_push_back(q, frame, t) ==
    LET IsReady(p) == is_ready(p, t)
        idx == first_index([i \in 1 .. Len(q) |-> IsReady(q[i])])
        polled == [i \in 1 .. Len(q) |-> IF i <= idx THEN is_ready_after(q[i], t) ELSE q[i]]
    IN  IF Len(q) + 1 = idx
        THEN [id |-> NONE, processes |-> polled, tf |-> frame]
        ELSE [id |-> polled[idx].context.tpidr_el0,
              processes |-> push_back(remove(polled, idx),
                               [polled[idx] EXCEPT !.state = Running]),
              tf |-> polled[idx].context]

\* a switch_to that does not restore the saved frame into the live one
switch_to_no_restore(q, frame, t) ==
    LET IsReady(p) == is_ready(p, t)
        idx == first_index([i \in 1 .. Len(q) |-> IsReady(q[i])])
        polled == [i \in 1 .. Len(q) |-> IF i <= idx THEN is_ready_after(q[i], t) ELSE q[i]]
    IN  IF Len(q) + 1 = idx
        THEN [id |-> NONE, processes |-> polled, tf |-> frame]
        ELSE [id |-> polled[idx].context.tpidr_el0,
              processes |-> push_front(remove(polled, idx),
                               [polled[idx] EXCEPT !.state = Running]),
              tf |-> frame]

\* a switch_to that never looks past the front of the queue
switch_to_front_only(q, frame, t) ==
    IF q # <<>> /\ is_ready(q[1], t)
    THEN [id |-> q[1].context.tpidr_el0,
          processes |-> [q EXCEPT ![1] = [is_ready_after(q[1], t) EXCEPT !.state = Running]],
          tf |-> q[1].context]
    ELSE [id |-> NONE, processes |-> q, tf |-> frame]

\* scheduler.rs:263-282, Scheduler::switch_to at time t: the Id returned, the
\* queue and the trap frame afterwards
switch_to(q, frame, t) ==
    LET IsReady(p) == is_ready(p, t)
        idx == first_index([i \in 1 .. Len(q) |-> IsReady(q[i])])
        \* is_ready was invoked on every process up to idx
        polled == [i \in 1 .. Len(q) |-> IF i <= idx THEN is_ready_after(q[i], t) ELSE q[i]]
    IN  IF Len(q) + 1 = idx
        THEN [id |-> NONE, processes |-> polled, tf |-> frame]
        ELSE LET next_process == polled[idx]
             IN  [id |-> next_process.context.tpidr_el0,
                  processes |-> push_front(remove(polled, idx),
                                   [next_process EXCEPT !.state = Running]),
                  tf |-> next_process.context]

\* a kill that marks the process Dead and leaves it in the queue
kill_no_pop(q, frame) ==
    LET out == schedule_out(q, Dead, frame).processes
    IN  IF out = <<>>
        THEN [id |-> NONE, processes |-> out]
        ELSE [id |-> out[Len(out)].context.tpidr_el0, processes |-> out]

\* scheduler.rs:288-298, Scheduler::kill: the Id returned and the queue afterwards
kill(q, frame) ==
    LET out == schedule_out(q, Dead, frame).processes
    IN  IF out = <<>>
        THEN [id |-> NONE, processes |-> out]
        ELSE [id |-> out[Len(out)].context.tpidr_el0, processes |-> pop_back(out)]

\* Bounds: the longest queue (MaxProcsRR where only switch(Ready) is called,
\* MaxProcs elsewhere), the time at which the clock stops, the sleeps asked for.
MaxProcs == 2
MaxProcsRR == 3
MaxTime == 1
SleepMs == {0, 1}

NoSchedCall ==
    [op |-> "none", core |-> 0, id |-> NONE, ok |-> FALSE, from |-> "",
     was |-> [kind |-> ""], irq |-> FALSE, num |-> NONE, seq |-> 0,
     saved |-> {}]
RROff == [on |-> FALSE, core |-> 0, base |-> <<>>, sel |-> <<>>]

\* no switch under way, the core's timer not armed, no debug shell open
NoTrap == [from |-> "", id |-> NONE, armed |-> FALSE,
           open |-> FALSE, outer |-> DefaultFrame, q |-> <<>>, slept |-> FALSE]

Ids(q) == [i \in 1 .. Len(q) |-> q[i].context.tpidr_el0]

\* scheduler.rs:191-196, Scheduler::new; every core is still in kmain
InitSched ==
    /\ processes = <<>>
    /\ last_id = 0
    /\ tf = [c \in Cores |-> DefaultFrame]
    /\ pc = [c \in Cores |-> "boot"]
    /\ now = 0
    /\ sret = NoSchedCall
    /\ killed = {}
    /\ rr = RROff
    /\ trap = [c \in Cores |-> NoTrap]

\* What every scheduler call records: the call, the core, the Id returned (if
\* any), whether it succeeded, for switch_to the state the selected process
\* was in and for schedule_out the new_state it was given (`was`, and its
\* kind `from`); seq alternates from one call to the next.
\* `saved` remembers, for every process a schedule_out has suspended and no
\* switch_to has selected since, the trap frame that schedule_out was passed
\* and the kind of the new_state.
SObserveSaved(op, c, id, ok, was, saved) ==
    sret' = [op |-> op, core |-> c, id |-> id, ok |-> ok, from |-> was.kind,
             was |-> was, irq |-> FALSE, num |-> NONE, seq |-> 1 - sret.seq,
             saved |-> saved]

\* the frames remembered, without the one of process id
Forget(id) == {s \in sret.saved : s.id # id}

SObserveWas(op, c, id, ok, was) == SObserveSaved(op, c, id, ok, was, Forget(id))

SObserveFrom(op, c, id, ok, from) == SObserveWas(op, c, id, ok, [kind |-> from])

SObserve(op, c, id, ok) == SObserveFrom(op, c, id, ok, "")

\* scheduler.rs:45-47, GlobalScheduler::add, called by kernel code on core c
\* while the queue is shorter than cap (or the Ids are used up)
AddUpTo(c, cap) ==
    /\ pc[c] \in {"boot", "user"}
    /\ Len(processes) < cap \/ last_id = U64_MAX
    /\ LET r == add(processes, last_id, NewProcess)
       IN  /\ processes' = r.processes
           /\ last_id' = r.last_id
           /\ SObserve("add", c, r.id, r.id # NONE)
    /\ rr' = RROff
    /\ UNCHANGED <<tf, pc, now, killed, trap, allocVars, vmVars, libVars>>

Add(c) == AddUpTo(c, MaxProcs)

\* scheduler.rs:143-156, GlobalScheduler::initialize: kmain adds the user
\* processes before it calls start()
InitializeAdd(c) == pc[c] = "boot" /\ AddUpTo(c, MaxProcs)
AddRR(c) == AddUpTo(c, MaxProcsRR)

\* scheduler.rs:94-114, GlobalScheduler::start: a default frame, then switch_to
Start(c) ==
    /\ pc[c] = "boot"
    /\ pc' = [pc EXCEPT ![c] = "switch_to"]
    /\ tf' = [tf EXCEPT ![c] = DefaultFrame]
    /\ SObserve("start", c, NONE, TRUE)
    \* initialize_local_timer_interrupt (scheduler.rs:134-140)
    /\ trap' = [trap EXCEPT ![c].armed = TRUE]
    /\ rr' = RROff
    /\ UNCHANGED <<processes, last_id, now, killed, allocVars, vmVars, libVars>>

\* scheduler.rs:53-56, GlobalScheduler::switch called on core c with the
\* trap frame `frame`, its first critical section: schedule_out; the core
\* then enters the loop of GlobalScheduler::switch_to
switch(c, new_state, frame) ==
    /\ LET r == schedule_out(processes, new_state, frame)
       IN  /\ processes' = r.processes
           /\ SObserveSaved("schedule_out", c, NONE, r.ok, new_state,
                  IF r.ok
                  THEN Forget(frame.tpidr_el0) \cup
                       {[id |-> frame.tpidr_el0, frame |-> frame,
                         as |-> new_state.kind]}
                  ELSE sret.saved)
    /\ tf' = [tf EXCEPT ![c] = frame]
    /\ pc' = [pc EXCEPT ![c] = "switch_to"]
    /\ UNCHANGED <<last_id, now, killed, allocVars, vmVars, libVars>>

\* who called the switch under way on core c, and for which process
Switching(c, from, frame) ==
    trap' = [trap EXCEPT ![c].from = from, ![c].id = frame.tpidr_el0]

\* a run of successive switch(Ready, tf) calls on core c goes on
RRContinues(c) == rr' = IF rr.on /\ rr.core = c THEN rr ELSE RROff

\* ---- exceptions (traps.rs, traps/syndrome.rs, traps/syscall.rs) ----
\* ESR_EL1 holds the exception class EC above the instruction-specific
\* syndrome, whose low 16 bits are the immediate of svc and brk.  EC starts at
\* bit 26; the model keeps the 16 immediate bits and puts EC right above them.
EC_SHIFT == 16
esr_ec(esr) == (esr \div 2^EC_SHIFT) % 64
esr_imm(esr) == esr % 2^16

\* syndrome.rs:65-111, Syndrome::from(esr)
Syndrome_from(esr) ==
    LET ec == esr_ec(esr)
    IN  CASE ec = 0 -> [kind |-> "Unknown"]
          [] ec = 1 -> [kind |-> "WfiWfe"]
          [] ec = 7 -> [kind |-> "SimdFp"]
          [] ec = 14 -> [kind |-> "IllegalExecutionState"]
          [] ec = 21 -> [kind |-> "Svc", imm |-> esr_imm(esr)]
          [] ec = 22 -> [kind |-> "Hvc", imm |-> esr_imm(esr)]
          [] ec = 23 -> [kind |-> "Smc", imm |-> esr_imm(esr)]
          [] ec = 24 -> [kind |-> "MsrMrsSystem"]
          [] ec \in {32, 33} -> [kind |-> "InstructionAbort"]
          [] ec = 34 -> [kind |-> "PCAlignmentFault"]
          [] ec \in {36, 37} -> [kind |-> "DataAbort"]
          [] ec = 38 -> [kind |-> "SpAlignmentFault"]
          [] ec \in {40, 44} -> [kind |-> "TrappedFpu"]
          [] ec = 47 -> [kind |-> "SError"]
          [] ec \in {48, 49} -> [kind |-> "Breakpoint"]
          [] ec \in {50, 51} -> [kind |-> "Step"]
          [] ec \in {52, 53} -> [kind |-> "Watchpoint"]
          [] ec = 60 -> [kind |-> "Brk", imm |-> esr_imm(esr)]
          [] OTHER -> [kind |-> "Other"]

\* traps.rs:19-24, Kind
Kinds == {"Synchronous", "Irq", "Fiq", "SError"}

\* the syndromes exceptions are raised with: svc with the immediates 0..6,
\* brk 42, a data abort, an instruction abort, an unknown class
Esrs ==
    {21 * 2^EC_SHIFT + imm : imm \in 0 .. 6}
      \cup {60 * 2^EC_SHIFT + 42, 36 * 2^EC_SHIFT + 5, 32 * 2^EC_SHIFT + 5,
            62 * 2^EC_SHIFT}

\* traps.rs:47-79, handle_exception: the arm it takes for an exception of
\* this kind with this syndrome
handle_exception(kind, esr) ==
    IF kind = "Irq"
    THEN [arm |-> "irq", imm |-> NONE]
    ELSE LET syn == Syndrome_from(esr)
         IN  CASE syn.kind = "Brk" -> [arm |-> "brk", imm |-> syn.imm]
               [] syn.kind = "Svc" -> [arm |-> "svc", imm |-> syn.imm]
               [] syn.kind = "DataAbort" -> [arm |-> "abort", imm |-> NONE]
               [] OTHER -> [arm |-> "other", imm |-> NONE]

\* The system call numbers (kernel_api); syscall.rs:82-91 matches on them.
NR_SLEEP == 1
NR_TIME == 2
NR_EXIT == 3
NR_WRITE == 4
NR_GETPID == 5

\* What a system call does: the trap frame it leaves, and the scheduler call
\* it ends with ("none", or "switch" / "kill" with the new state).
\* a sleep that only yields: the caller stays Ready
sys_sleep_yield(ms, frame, t) == [tf |-> frame, call |-> "switch", state |-> Ready]

\* syscall.rs:17-34, sys_sleep
sys_sleep(ms, frame, t) ==
    [tf |-> frame, call |-> "switch", state |-> Waiting(sleep_fn(t, ms))]

\* syscall.rs:44-50, sys_time
sys_time(frame, t) ==
    [tf |-> [frame EXCEPT !.x7 = 1, !.x0 = as_secs(t), !.x1 = subsec_nanos(t)],
     call |-> "none", state |-> Ready]

\* an exit that removes the caller with kill
sys_exit_kill(frame) == [tf |-> frame, call |-> "kill", state |-> Dead]

\* syscall.rs:55-59, sys_exit
sys_exit(frame) == [tf |-> frame, call |-> "switch", state |-> Dead]

\* syscall.rs:66-69, sys_write (the byte goes to the console)
sys_write(b, frame) ==
    [tf |-> [frame EXCEPT !.x7 = 1], call |-> "none", state |-> Ready]

\* syscall.rs:77-80, sys_getpid
sys_getpid(frame) ==
    [tf |-> [frame EXCEPT !.x7 = 1, !.x0 = frame.tpidr_el0],
     call |-> "none", state |-> Ready]

\* a handle_syscall that reports success for the numbers it does not know
handle_syscall_default_ok(num, frame, t) ==
    CASE num = NR_SLEEP -> sys_sleep(frame.x0, frame, t)
      [] num = NR_TIME -> sys_time(frame, t)
      [] num = NR_EXIT -> sys_exit(frame)
      [] num = NR_WRITE -> sys_write(frame.x0, frame)
      [] num = NR_GETPID -> sys_getpid(frame)
      [] OTHER -> [tf |-> [frame EXCEPT !.x7 = 1], call |-> "none", state |-> Ready]

\* syscall.rs:82-91, handle_syscall at time t (the arguments sys_sleep and
\* sys_write take from x0 are below 2^8, so `as u32` and `as u8` keep them)
handle_syscall(num, frame, t) ==
    CASE num = NR_SLEEP -> sys_sleep(frame.x0, frame, t)
      [] num = NR_TIME -> sys_time(frame, t)
      [] num = NR_EXIT -> sys_exit(frame)
      [] num = NR_WRITE -> sys_write(frame.x0, frame)
      [] num = NR_GETPID -> sys_getpid(frame)
      [] OTHER -> [tf |-> frame, call |-> "none", state |-> Ready]

\* the exceptions, kind and syndrome, for which handle_exception takes one
\* of these arms (with this immediate)
Arms == [e \in Kinds \X Esrs |-> handle_exception(e[1], e[2])]
Raised(arms, imm) ==
    {e \in Kinds \X Esrs : Arms[e].arm \in arms /\ Arms[e].imm = imm}

\* what a step of the exception handler that is not a scheduler call records:
\* the arm taken, whether an exception of kind Irq can have taken it, the
\* system call number
TObserve(op, c, raised, num) ==
    sret' = [op |-> op, core |-> c, id |-> NONE, ok |-> TRUE, from |-> "",
             was |-> [kind |-> ""], irq |-> \E e \in raised : e[1] = "Irq",
             num |-> num, seq |-> 1 - sret.seq, saved |-> sret.saved]

\* scheduler.rs:86-88, GlobalScheduler::kill called on core c with the trap
\* frame `frame`; the core then looks for the next process with switch_to
KillWith(c, frame) ==
    /\ LET r == kill(processes, frame)
       IN  /\ processes' = r.processes
           /\ SObserve("kill", c, r.id, schedule_out(processes, Dead, frame).ok)
    /\ killed' = IF schedule_out(processes, Dead, frame).ok
                 THEN killed \cup {frame.tpidr_el0}
                 ELSE killed
    /\ tf' = [tf EXCEPT ![c] = frame]
    /\ pc' = [pc EXCEPT ![c] = "switch_to"]
    /\ UNCHANGED <<last_id, now, allocVars, vmVars, libVars>>

\* traps.rs:65-68, the Svc arm of handle_exception on core c: the exception
\* was raised with trap frame `frame` by svc #num; `from` names the system
\* call and `slept` tells whether it was the debug shell that slept
Svc(c, num, frame, from, slept) ==
    /\ Raised({"svc"}, num) # {}
    /\ LET r == handle_syscall(num, frame, now)
       IN  CASE r.call = "switch" ->
                  /\ switch(c, r.state, r.tf)
                  /\ trap' = [trap EXCEPT ![c].from = from,
                                          ![c].id = frame.tpidr_el0,
                                          ![c].slept = @ \/ slept]
             [] r.call = "kill" ->
                  /\ KillWith(c, r.tf)
                  /\ trap' = [trap EXCEPT ![c].from = from,
                                          ![c].id = frame.tpidr_el0,
                                          ![c].slept = @ \/ slept]
             [] r.call = "none" ->
                  /\ tf' = [tf EXCEPT ![c] = r.tf]
                  /\ TObserve("handle_syscall", c, Raised({"svc"}, num), num)
                  /\ UNCHANGED <<processes, last_id, pc, now, killed,
                                 trap, allocVars, vmVars, libVars>>
    /\ rr' = RROff

\* scheduler.rs:358-361, timerc_handler: local_tick_in(affinity(), TICK) arms
\* the core's timer for the next tick, then switch(State::Ready, tf)
timerc_handler == [armed |-> TRUE, state |-> Ready]

\* traps.rs:50-56: an exception of kind Irq on core c (the timer of the core
\* has fired), handle_exception invokes timerc_handler
TimerIrq(c) ==
    /\ pc[c] = "user"
    /\ \A esr \in Esrs : Arms[<<"Irq", esr>>].arm = "irq"
    /\ switch(c, timerc_handler.state, tf[c])
    /\ trap' = [trap EXCEPT ![c].from = "irq", ![c].id = tf[c].tpidr_el0,
                            ![c].armed = timerc_handler.armed]
    /\ RRContinues(c)

\* the process running on core c calls sleep(ms), ms in SleepMs, before the
\* clock reaches cap: x0 = ms, svc NR_SLEEP
SysSleepUpTo(c, cap) ==
    /\ pc[c] = "user"
    /\ \E ms \in SleepMs :
          /\ now + from_millis(ms) < cap
          /\ Svc(c, NR_SLEEP, [tf[c] EXCEPT !.x0 = ms], "sleep", FALSE)

SysSleep(c) == SysSleepUpTo(c, MaxTime)

\* the process running on core c calls exit: svc NR_EXIT
SysExit(c) ==
    /\ pc[c] = "user"
    /\ Svc(c, NR_EXIT, tf[c], "exit", FALSE)

\* the process running on core c calls time, write, getpid
SysTime(c) == pc[c] = "user" /\ Svc(c, NR_TIME, tf[c], "", FALSE)
SysWrite(c) == pc[c] = "user" /\ Svc(c, NR_WRITE, tf[c], "", FALSE)
SysGetpid(c) == pc[c] = "user" /\ Svc(c, NR_GETPID, tf[c], "", FALSE)

\* the process running on core c executes svc with a number that is no
\* system call
SysUnknown(c) ==
    /\ pc[c] = "user"
    /\ \E num \in {0, 6} : Svc(c, num, tf[c], "", FALSE)

\* the most brk instructions a process executes
MaxBrk == 1

\* traps.rs:59-61, the Brk arm of handle_exception on core c: the debug shell
\* opens.  The handler keeps its trap frame until the shell exits; the queue
\* as it is now is recorded with it.  One debug shell is open at a time.
Brk(c) ==
    /\ pc[c] = "user"
    /\ \A d \in Cores : ~trap[d].open
    /\ tf[c].elr_el1 < USER_IMG_BASE + 4 * MaxBrk
    /\ Raised({"brk"}, 42) # {}
    /\ TObserve("brk", c, Raised({"brk"}, 42), 42)
    /\ pc' = [pc EXCEPT ![c] = "shell"]
    /\ trap' = [trap EXCEPT ![c].open = TRUE, ![c].outer = tf[c],
                            ![c].q = processes, ![c].slept = FALSE]
    /\ rr' = RROff
    /\ UNCHANGED <<processes, last_id, tf, now, killed, allocVars, vmVars, libVars>>

\* shell.rs:226-240, the sleep command of the debug shell: sleep_function
\* executes svc NR_SLEEP in the exception handler, at EL1.  The exception
\* this raises has a trap frame of its own, with the Id register of the
\* process that hit the brk, a return address in the kernel and the saved
\* status of EL1h.
ShellSleep(c) ==
    /\ pc[c] = "shell"
    /\ \E ms \in SleepMs :
          /\ now + from_millis(ms) < MaxTime
          /\ Svc(c, NR_SLEEP,
                 [tf[c] EXCEPT !.x0 = ms, !.elr_el1 = 0, !.spsr_el1 = SPSR_EL1H],
                 "sleep", TRUE)

\* a Brk arm that returns to the brk instruction itself
brk_return_same_pc(frame) == frame

\* traps.rs:62, the Brk arm after the shell has returned
brk_return(frame) == [frame EXCEPT !.elr_el1 = @ + 4]

\* shell.rs:118-119 and traps.rs:62-63: the exit command ends the debug
\* shell, handle_exception advances elr_el1 in its trap frame and returns
ShellExit(c) ==
    /\ pc[c] = "shell"
    /\ trap[c].open
    /\ tf' = [tf EXCEPT ![c] = brk_return(trap[c].outer)]
    /\ pc' = [pc EXCEPT ![c] = "user"]
    /\ trap' = [trap EXCEPT ![c] = [NoTrap EXCEPT !.slept = trap[c].slept,
                                                  !.armed = trap[c].armed]]
    /\ TObserve("brk_return", c, {}, NONE)
    /\ rr' = RROff
    /\ UNCHANGED <<processes, last_id, now, killed, allocVars, vmVars, libVars>>

\* traps.rs:69-77, the DataAbort arm and the default arm of handle_exception
\* on core c: the handler prints and returns; nothing is changed, and the
\* eret that follows resumes the process at the saved elr_el1
Fault(c) ==
    /\ pc[c] = "user"
    /\ Raised({"abort", "other"}, NONE) # {}
    /\ TObserve("fault", c, Raised({"abort", "other"}, NONE), NONE)
    /\ rr' = RROff
    /\ UNCHANGED <<processes, last_id, tf, pc, now, killed, trap, allocVars, vmVars, libVars>>

\* scheduler.rs:53-56, GlobalScheduler::switch(Ready, tf) called from kmain
\* with a fresh trap frame, which matches no process
SwitchFresh(c) ==
    /\ pc[c] = "boot"
    /\ tf[c] = DefaultFrame
    /\ switch(c, Ready, tf[c])
    /\ Switching(c, "kmain", tf[c])
    /\ rr' = IF \A i \in 1 .. Len(processes) : processes[i].state = Ready
             THEN [on |-> TRUE, core |-> c, base |-> Ids(processes), sel |-> <<>>]
             ELSE RROff

\* scheduler.rs:53-56, GlobalScheduler::switch(Waiting(poll), tf) for the
\* running process, with a poll that returns false on every invocation
SwitchWaiting(c) ==
    /\ pc[c] = "user"
    /\ switch(c, Waiting(PollNever), tf[c])
    /\ Switching(c, "wait", tf[c])
    /\ rr' = RROff

\* scheduler.rs:63-81, one round of the loop of GlobalScheduler::switch_to:
\* Scheduler::switch_to under the lock, then return the Id or wfi and retry
SwitchTo(c) ==
    /\ pc[c] = "switch_to"
    /\ LET r == switch_to(processes, tf[c], now)
       IN  /\ processes' = r.processes
           /\ tf' = [tf EXCEPT ![c] = r.tf]
           \* eret returns to the exception level the restored frame names
           /\ pc' = [pc EXCEPT ![c] = IF r.id = NONE THEN "switch_to"
                                      ELSE IF el_of(r.tf.spsr_el1) = 1 THEN "shell"
                                      ELSE "user"]
           /\ trap' = IF r.id = NONE THEN trap
                      ELSE [trap EXCEPT ![c].from = "", ![c].id = NONE]
           /\ SObserveWas("switch_to", c, r.id, r.id # NONE,
                          IF r.id = NONE THEN [kind |-> ""]
                          ELSE processes[first_index([i \in 1 .. Len(processes) |->
                                   is_ready(processes[i], now)])].state)
           /\ rr' = IF rr.on /\ rr.core = c /\ Len(rr.sel) <= Len(rr.base)
                    THEN IF r.id = NONE THEN rr
                         ELSE [rr EXCEPT !.sel = Append(@, r.id)]
                    ELSE RROff
    /\ UNCHANGED <<last_id, now, killed, allocVars, vmVars, libVars>>

\* scheduler.rs:86-88, GlobalScheduler::kill for the process running on core c
Kill(c) ==
    /\ pc[c] = "user"
    /\ KillWith(c, tf[c])
    /\ Switching(c, "kill", tf[c])
    /\ rr' = RROff

\* scheduler.rs:86-88, GlobalScheduler::kill called by kernel code on core c
\* with a default trap frame, before any process runs on the core
KillFresh(c) ==
    /\ pc[c] = "boot"
    /\ tf[c] = DefaultFrame
    /\ LET r == kill(processes, tf[c])
       IN  /\ processes' = r.processes
           /\ SObserve("kill", c, r.id, schedule_out(processes, Dead, tf[c]).ok)
    /\ killed' = IF schedule_out(processes, Dead, tf[c]).ok
                 THEN killed \cup {tf[c].tpidr_el0}
                 ELSE killed
    /\ rr' = RROff
    /\ UNCHANGED <<last_id, tf, pc, now, trap, allocVars, vmVars, libVars>>

\* time passes, until the clock reaches cap
TickUpTo(cap) ==
    /\ now < cap
    /\ now' = now + 1
    /\ UNCHANGED <<processes, last_id, tf, pc, sret, killed, rr, trap, allocVars, vmVars, libVars>>

Tick == TickUpTo(MaxTime)

\* process.rs:156-171, Process::is_ready called on the process at the front
\* of the queue (as the loop of Scheduler::switch_to calls it first)
IsReady(c) ==
    /\ processes # <<>>
    /\ processes' = [processes EXCEPT ![1] = is_ready_after(@, now)]
    /\ SObserve("is_ready", c, NONE, is_ready(processes[1], now))
    /\ UNCHANGED <<last_id, tf, pc, now, killed, rr, trap, allocVars, vmVars, libVars>>

(***************************************************************************)
(* Part 3: user page tables and the program loader                         *)
(*                                                                         *)
(* Sizes are scaled down: a page is PAGE_SIZE bytes, an L3 table has       *)
(* L3_ENTRIES entries (8192 in the kernel) and the l2 index field of a     *)
(* virtual address takes L2_ENTRIES values (8192 in the kernel: bits 29 to *)
(* 41).  Masks and shifts are written as division and remainder.  An entry *)
(* keeps the two fields the code reads back, VALID and ADDR.               *)
(***************************************************************************)
PAGE_SIZE == 4
L3_ENTRIES == 2
L2_ENTRIES == 4

\* the number of L3 tables of a PageTable (pagetable.rs:103)
L3_TABLES == 3

\* pagetable.rs:56-58, L3Entry::new: RawL3Entry::new(0)
L3Entry_new ==
    [valid |-> FALSE, type |-> "Zero", attr |-> "Zero", ap |-> "Zero",
     sh |-> "Zero", af |-> 0, addr |-> 0]

\* pagetable.rs:293-300, the leaf descriptor UserPageTable::alloc fills in
UserEntry(saddr) ==
    [valid |-> TRUE, type |-> "Page", attr |-> "Mem", ap |-> "USER_RW",
     sh |-> "ISh", af |-> 1, addr |-> saddr]

\* pagetable.rs:109-145, PageTable::new: the three L3 tables, nothing mapped
PageTable_new ==
    [t \in 0 .. L3_TABLES - 1 |-> [i \in 0 .. L3_ENTRIES - 1 |-> L3Entry_new]]

\* a locate that takes the l2 index modulo the number of tables
locate_wrapping(va) ==
    [panic |-> va % PAGE_SIZE # 0,
     l2 |-> ((va \div (PAGE_SIZE * L3_ENTRIES)) % L2_ENTRIES) % L3_TABLES,
     l3 |-> (va \div PAGE_SIZE) % L3_ENTRIES]

\* pagetable.rs:154-167, PageTable::locate
locate(va) ==
    LET l2_index == (va \div (PAGE_SIZE * L3_ENTRIES)) % L2_ENTRIES
        l3_index == (va \div PAGE_SIZE) % L3_ENTRIES
    IN  IF va % PAGE_SIZE # 0 THEN [panic |-> TRUE, l2 |-> 0, l3 |-> 0]
        ELSE IF l2_index > 2 THEN [panic |-> TRUE, l2 |-> 0, l3 |-> 0]
        ELSE [panic |-> FALSE, l2 |-> l2_index, l3 |-> l3_index]

\* pagetable.rs:171-174, PageTable::is_valid (for a va that locate accepts)
is_valid(pt, va) == pt[locate(va).l2][locate(va).l3].valid

\* pagetable.rs:184-188, PageTable::set_entry
set_entry(pt, va, entry) ==
    [pt EXCEPT ![locate(va).l2][locate(va).l3] = entry]

\* the page number of IO_BASE; IO_BASE_END is the end of the third L3 table
IoBasePage == 3
IO_BASE == IoBasePage * PAGE_SIZE
IO_BASE_END == L3_TABLES * L3_ENTRIES * PAGE_SIZE

\* pagetable.rs:222-231 and 237-246, the descriptor of a kernel page
KernEntry(attr, sh, saddr) ==
    [valid |-> TRUE, type |-> "Page", attr |-> attr, ap |-> "KERN_RW",
     sh |-> sh, af |-> 1, addr |-> saddr]

\* pagetable.rs:220-233 and 236-248: the two loops of KernPageTable::new,
\* from addr up to the bound
RECURSIVE kern_loop(_, _, _, _, _)
kern_loop(pt, addr, bound, attr, sh) ==
    IF addr + PAGE_SIZE <= bound
    THEN kern_loop(set_entry(pt, addr, KernEntry(attr, sh, addr \div PAGE_SIZE)),
                   addr + PAGE_SIZE, bound, attr, sh)
    ELSE pt

\* KernPageTable::new with wrong attributes for the peripherals
KernPageTable_new_io_as_memory(memory_map_end) ==
    kern_loop(kern_loop(PageTable_new, 0, memory_map_end, "Mem", "ISh"),
              IO_BASE, IO_BASE_END, "Mem", "ISh")

\* pagetable.rs:217-251, KernPageTable::new; memory_map_end is the end
\* allocator::memory_map() reports
KernPageTable_new(memory_map_end) ==
    kern_loop(kern_loop(PageTable_new, 0, memory_map_end, "Mem", "ISh"),
              IO_BASE, IO_BASE_END, "Dev", "OSh")

\* the ends of memory the firmware reports: RAM lies below the peripherals
MemoryEnds == 0 .. IO_BASE

NoKern == [built |-> FALSE, memory_map_end |-> 0, l3 |-> PageTable_new]

\* ALLOCATOR, for the one layout the page table asks for: the free list of
\* that size class and the bump region [current, end), which starts page
\* aligned.  MaxFrames pages fit in it.
MaxFrames == 4
Heap_new ==
    [bin |-> <<>>, current |-> PAGE_SIZE, end |-> PAGE_SIZE * (1 + MaxFrames)]

\* bin.rs:74-106, Allocator::alloc(Page::layout()): the head of the class's
\* free list, else the block at the cursor (the cursor is page aligned, so
\* align_up leaves it alone and there is no padding), else null
ALLOCATOR_alloc(h) ==
    IF h.bin # <<>>
    THEN [heap |-> [h EXCEPT !.bin = list_pop(@)], ptr |-> list_peek(h.bin)]
    ELSE IF h.current + PAGE_SIZE > h.end
         THEN [heap |-> h, ptr |-> NULL]
         ELSE [heap |-> [h EXCEPT !.current = @ + PAGE_SIZE], ptr |-> h.current]

\* bin.rs:121-124, Allocator::dealloc(ptr, Page::layout())
ALLOCATOR_dealloc(h, ptr) == [h EXCEPT !.bin = list_push(@, ptr)]

\* an alloc that asks the allocator for the page before it checks va
UserPageTable_alloc_late_check(pt, h, va) ==
    LET off == va - USER_IMG_BASE
        a   == ALLOCATOR_alloc(h)
    IN  IF \/ va < USER_IMG_BASE
           \/ locate(off).panic
           \/ is_valid(pt, off)
           \/ a.ptr = NULL
        THEN [panic |-> TRUE, l3 |-> pt, heap |-> a.heap, allocs |-> 1,
              ptr |-> a.ptr]
        ELSE [panic |-> FALSE,
              l3 |-> set_entry(pt, off,
                               UserEntry(a.ptr \div PAGE_SIZE)),
              heap |-> a.heap, allocs |-> 1, ptr |-> a.ptr]

\* pagetable.rs:280-306, UserPageTable::alloc(va, _perm).  The permission is
\* not used.  `allocs` counts the calls of ALLOCATOR.alloc made; the ADDR
\* field holds the page's address shifted right by the page bits.
UserPageTable_alloc(pt, h, va) ==
    LET off == va - USER_IMG_BASE
        a   == ALLOCATOR_alloc(h)
    IN  IF va < USER_IMG_BASE
        THEN [panic |-> TRUE, l3 |-> pt, heap |-> h, allocs |-> 0, ptr |-> NULL]
        ELSE IF locate(off).panic
        THEN [panic |-> TRUE, l3 |-> pt, heap |-> h, allocs |-> 0, ptr |-> NULL]
        ELSE IF is_valid(pt, off)
        THEN [panic |-> TRUE, l3 |-> pt, heap |-> h, allocs |-> 0, ptr |-> NULL]
        ELSE IF a.ptr = NULL
        THEN [panic |-> TRUE, l3 |-> pt, heap |-> a.heap, allocs |-> 1,
              ptr |-> NULL]
        ELSE [panic |-> FALSE,
              l3 |-> set_entry(pt, off,
                               UserEntry(a.ptr \div PAGE_SIZE)),
              heap |-> a.heap, allocs |-> 1, ptr |-> a.ptr]

\* pagetable.rs:198-204, IntoIterator for &mut PageTable: the entries of
\* l3[0], then the entries of l3[1]
into_iter(pt) ==
    [k \in 1 .. 2 * L3_ENTRIES |->
        IF k <= L3_ENTRIES THEN pt[0][k - 1] ELSE pt[1][k - 1 - L3_ENTRIES]]

\* pagetable.rs:340-347, the loop of drop over the entries still to visit:
\* the addresses given to ALLOCATOR.dealloc, in order
RECURSIVE drop_loop(_)
drop_loop(entries) ==
    IF entries = <<>> THEN <<>>
    ELSE (IF Head(entries).valid
          THEN <<Head(entries).addr * PAGE_SIZE>> ELSE <<>>)
         \o drop_loop(Tail(entries))

\* the free list after the deallocations `ptrs`, made in order
RECURSIVE dealloc_all(_, _)
dealloc_all(h, ptrs) ==
    IF ptrs = <<>> THEN h
    ELSE dealloc_all(ALLOCATOR_dealloc(h, Head(ptrs)), Tail(ptrs))

\* pagetable.rs:338-349, Drop for UserPageTable (what runs when the table,
\* or the Process that owns it, is dropped)
UserPageTable_drop(pt, h) ==
    [freed |-> drop_loop(into_iter(pt)),
     heap |-> dealloc_all(h, drop_loop(into_iter(pt)))]

\* ---- the program loader ----
\* The file FILESYSTEM.open_file yields: whether the path names a file, its
\* size, and whether its cluster chain can be read (read_chain errs on a
\* device error or an invalid FAT entry).
MaxFileSize == 9
Files ==
    [present : BOOLEAN, file_size : 0 .. MaxFileSize, readable : BOOLEAN]

\* fat32/src/vfat/file.rs:42-58, File::read into a buffer of one page, at
\* file_offset: Ok(n), or a panic where read_chain's error is unwrapped
File_read(file, file_offset) ==
    LET e == IF file_offset + PAGE_SIZE < file.file_size
             THEN file_offset + PAGE_SIZE ELSE file.file_size
    IN  IF file.file_size = 0 THEN [kind |-> "Ok", n |-> 0]
        ELSE IF ~file.readable THEN [kind |-> "panic", n |-> 0]
        ELSE [kind |-> "Ok", n |-> e - file_offset]

\* what do_load hands back: the OsResult (or "panic"), the table and the
\* heap it leaves, the image pages mapped (virtual addresses, in order), the
\* stack page, and the pages the allocator returned for the table
LoadResult(ret, pt, h, image, stack, given) ==
    [ret |-> ret, l3 |-> pt, heap |-> h, image |-> image, stack |-> stack,
     given |-> given]

\* process.rs:97-105, after the loop: the stack page and the Process
do_load_stack(pt, h, va, image, given) ==
    LET sva == va + PAGE_SIZE
        s   == UserPageTable_alloc(pt, h, sva)
    IN  IF s.panic
        THEN LoadResult("panic", s.l3, s.heap, image, NONE, given)
        ELSE LoadResult("Ok", s.l3, s.heap, image, sva,
                        given \cup {[va |-> sva, ptr |-> s.ptr]})

\* process.rs:89-96, the loop of do_load with the page at va still to map
RECURSIVE do_load_loop(_, _, _, _, _, _, _)
do_load_loop(pt, h, va, file, file_offset, image, given) ==
    LET a == UserPageTable_alloc(pt, h, va)
        r == File_read(file, file_offset)
        g == given \cup {[va |-> va, ptr |-> a.ptr]}
    IN  IF a.panic
        THEN LoadResult("panic", a.l3, a.heap, image, NONE, given)
        ELSE IF r.kind = "panic"
        THEN LoadResult("panic", a.l3, a.heap, Append(image, va), NONE, g)
        ELSE IF r.kind = "Ok" /\ r.n = PAGE_SIZE
        THEN do_load_loop(a.l3, a.heap, va + PAGE_SIZE, file,
                          file_offset + r.n, Append(image, va), g)
        ELSE IF r.kind = "Ok"
        THEN do_load_stack(a.l3, a.heap, va, Append(image, va), g)
        ELSE LoadResult("IoError",
                        PageTable_new,
                        UserPageTable_drop(a.l3, a.heap).heap,
                        Append(image, va), NONE, g)

\* process.rs:79-117, Process::do_load
do_load(file, h) ==
    IF file.present
    THEN do_load_loop(PageTable_new, h, USER_IMG_BASE, file, 0, <<>>, {})
    ELSE LoadResult("NoEntry", PageTable_new, h, <<>>, NONE, {})

\* ---- the calls made on the page table ----
NoFile == [present |-> FALSE, file_size |-> 0, readable |-> FALSE]

NoVmCall ==
    [op |-> "none", alive |-> FALSE, panicked |-> FALSE, nops |-> 0,
     va |-> 0, ret |-> "", allocs |-> 0, freed |-> <<>>, given |-> {},
     image |-> <<>>, stack |-> NONE, file |-> NoFile,
     pre |-> [l3 |-> PageTable_new, heap |-> Heap_new, given |-> {}]]

\* no page table yet, nothing allocated
InitVm ==
    /\ vmap = PageTable_new
    /\ heap = Heap_new
    /\ vmobs = NoVmCall
    /\ kern = NoKern

\* the virtual addresses alloc is asked for: below the image base, every page
\* the l2 and l3 index fields can name, and an address inside a page
MaxVmOps == 4
AllocVas ==
    {USER_IMG_BASE - PAGE_SIZE, USER_IMG_BASE + 1}
      \cup {USER_IMG_BASE + k * PAGE_SIZE : k \in 0 .. L2_ENTRIES * L3_ENTRIES - 1}

VObserve(op, va, ret, panic) ==
    [vmobs EXCEPT !.op = op, !.va = va, !.ret = ret, !.panicked = panic,
                  !.nops = @ + 1, !.allocs = 0, !.freed = <<>>,
                  !.image = <<>>, !.stack = NONE, !.file = NoFile,
                  !.pre = [l3 |-> vmap, heap |-> heap, given |-> vmobs.given]]

\* pagetable.rs:265-268, UserPageTable::new
VmNew ==
    /\ ~vmobs.panicked /\ ~vmobs.alive /\ vmobs.nops < MaxVmOps
    /\ vmap' = PageTable_new
    /\ vmobs' = [VObserve("new", 0, "", FALSE) EXCEPT !.alive = TRUE,
                                                      !.given = {}]
    /\ UNCHANGED <<heap, kern, allocVars, schedVars, libVars>>

\* UserPageTable::alloc on the table at hand
VmAlloc ==
    /\ ~vmobs.panicked /\ vmobs.alive /\ vmobs.nops < MaxVmOps
    /\ \E va \in AllocVas :
          LET a == UserPageTable_alloc(vmap, heap, va)
          IN  /\ vmap' = a.l3
              /\ heap' = a.heap
              /\ vmobs' = [VObserve("alloc", va, "", a.panic) EXCEPT
                              !.allocs = a.allocs,
                              !.given = IF a.panic THEN @
                                        ELSE @ \cup {[va |-> va, ptr |-> a.ptr]}]
    /\ UNCHANGED <<kern, allocVars, schedVars, libVars>>

\* the table at hand is dropped
VmDrop ==
    /\ ~vmobs.panicked /\ vmobs.alive /\ vmobs.nops < MaxVmOps
    /\ LET d == UserPageTable_drop(vmap, heap)
       IN  /\ vmap' = PageTable_new
           /\ heap' = d.heap
           /\ vmobs' = [VObserve("drop", 0, "", FALSE) EXCEPT
                           !.alive = FALSE, !.freed = d.freed, !.given = {}]
    /\ UNCHANGED <<kern, allocVars, schedVars, libVars>>

\* Process::do_load of some file; the table at hand is then the vmap of the
\* Process it returns
DoLoad ==
    /\ ~vmobs.panicked /\ ~vmobs.alive /\ vmobs.nops < MaxVmOps
    /\ \E file \in Files :
          LET r == do_load(file, heap)
          IN  /\ vmap' = r.l3
              /\ heap' = r.heap
              /\ vmobs' = [VObserve("do_load", 0, r.ret, r.ret = "panic") EXCEPT
                              !.alive = (r.ret = "Ok"), !.image = r.image,
                              !.stack = r.stack, !.file = file,
                              !.given = r.given]
    /\ UNCHANGED <<kern, allocVars, schedVars, libVars>>

\* the addresses locate is given: every value of the l3 and l2 index fields,
\* of the bits below them and of two bits above them
MaxVa == 4 * L2_ENTRIES * L3_ENTRIES * PAGE_SIZE - 1
InitLocate ==
    /\ vmap = PageTable_new
    /\ heap = Heap_new
    /\ kern = NoKern
    /\ \E va \in 0 .. MaxVa : vmobs = [NoVmCall EXCEPT !.va = va]

\* PageTable::locate applied to the address drawn
Locate ==
    /\ vmobs.op = "none"
    /\ vmobs' = [VObserve("locate", vmobs.va, "", locate(vmobs.va).panic) EXCEPT
                    !.image = <<locate(vmobs.va).l2, locate(vmobs.va).l3>>]
    /\ UNCHANGED <<vmap, heap, kern, allocVars, schedVars, libVars>>

\* VMM.initialize() builds the kernel page table, once
KernNew ==
    /\ ~kern.built
    /\ \E e \in MemoryEnds :
          kern' = [built |-> TRUE, memory_map_end |-> e,
                   l3 |-> KernPageTable_new(e)]
    /\ UNCHANGED <<vmap, heap, vmobs, allocVars, schedVars, libVars>>

\* Page::SIZE and Page::ALIGN in bytes (pagetable.rs:22-23): the 64 KiB the
\* ADDR field of a descriptor counts in (addr >> 16, pagetable.rs:292)
Page_SIZE == 65536

\* pagetable.rs:280-306, UserPageTable::alloc with ALLOCATOR the bin
\* allocator of Part 1: the page comes from alloc(Page::layout()) and the
\* descriptor holds its address shifted right by 16
PageAlloc ==
    /\ ~panicked /\ ~vmobs.panicked /\ vmobs.nops < MaxVmOps
    /\ \E va \in AllocVas :
          LET off == va - USER_IMG_BASE
          IN  IF va < USER_IMG_BASE \/ locate(off).panic \/ is_valid(vmap, off)
              THEN /\ vmobs' = VObserve("alloc", va, "", TRUE)
                   /\ UNCHANGED <<vmap, current, end, bins, live, last, prev,
                                  pre, panicked, nops>>
              ELSE /\ alloc(Page_SIZE, Page_SIZE)
                   /\ IF last'.ptr = NULL
                      THEN /\ vmobs' = VObserve("alloc", va, "", TRUE)
                           /\ UNCHANGED vmap
                      ELSE /\ vmap' = set_entry(vmap, off,
                                         UserEntry(last'.ptr \div Page_SIZE))
                           /\ vmobs' = [VObserve("alloc", va, "", FALSE) EXCEPT
                                 !.allocs = 1,
                                 !.given = @ \cup {[va |-> va, ptr |-> last'.ptr]}]
    /\ UNCHANGED <<region, heap, kern, schedVars, libVars>>

(***************************************************************************)
(* Part 4: the XMODEM receiver (lib/xmodem/src/lib.rs)                     *)
(*                                                                         *)
(* A byte (u8) takes the values 0 .. U8_MAX and a packet carries           *)
(* PACKET_LEN bytes of data (128 in the library).  The inner stream is a   *)
(* serial line: a read yields the next byte the sender has put on the line *)
(* or fails when none comes (MiniUart times out, pi/src/uart.rs:159-176);  *)
(* a write succeeds (uart.rs:182-194).                                     *)
(***************************************************************************)
U8_MAX == 31
PACKET_LEN == 2

SOH == 1
EOT == 4
ACK == 6
NAK == 21
CAN == 24

\* u8::wrapping_add
u8_wrapping_add(a, b) == (a + b) % (U8_MAX + 1)

\* lib.rs:121-123, get_checksum
RECURSIVE get_checksum(_)
get_checksum(buf) ==
    IF buf = <<>> THEN 0
    ELSE u8_wrapping_add(get_checksum(SubSeq(buf, 1, Len(buf) - 1)), buf[Len(buf)])

\* lib.rs:129-131, Xmodem::new, in a build with or without overflow checks
Xmodem_new(overflow_checks) ==
    [packet |-> 1, started |-> FALSE, overflow_checks |-> overflow_checks]

\* what read_packet hands back: Ok(n) or Err(kind) (or a panic), the expected
\* packet number afterwards, the bytes written to the line and the buffer
PacketResult(ret, n, packet, tx, buf) ==
    [ret |-> ret, n |-> n, packet |-> packet, tx |-> tx, buf |-> buf]

\* lib.rs:183-194, expect_byte_or_cancel(byte, _) when the line yields
\* byte_read: the error it returns ("" for Ok) and what it writes
expect_byte_or_cancel(byte_read, byte) ==
    IF byte_read = byte THEN [err |-> "", tx |-> <<>>]
    ELSE IF byte_read = CAN THEN [err |-> "ConnectionAborted", tx |-> <<CAN>>]
    ELSE [err |-> "InvalidData", tx |-> <<CAN>>]

\* an end of the SOH arm that goes on to the next packet number also when
\* the checksum is wrong
read_packet_tail_always_increment(self, tx, buf, cksum) ==
    IF cksum # get_checksum(buf)
    THEN PacketResult("Interrupted", 0, u8_wrapping_add(self.packet, 1),
                      tx \o <<NAK>>, buf)
    ELSE PacketResult("Ok", Len(buf), u8_wrapping_add(self.packet, 1),
                      tx \o <<ACK>>, buf)

\* lib.rs:263-270, the end of the SOH arm: the checksum is compared; the
\* `+= 1` on the u8 wraps, or panics in a build with overflow checks
read_packet_tail(self, tx, buf, cksum) ==
    IF cksum # get_checksum(buf)
    THEN PacketResult("Interrupted", 0, self.packet, tx \o <<NAK>>, buf)
    ELSE IF self.packet = U8_MAX /\ self.overflow_checks
    THEN PacketResult("panic", 0, self.packet, tx, buf)
    ELSE PacketResult("Ok", Len(buf), u8_wrapping_add(self.packet, 1),
                      tx \o <<ACK>>, buf)

\* lib.rs:254-271, the SOH arm of read_packet: rx holds the bytes that follow
\* SOH on the line
read_packet_soh(self, tx, rx) ==
    LET num == expect_byte_or_cancel(rx[1], self.packet)
        cpl == expect_byte_or_cancel(rx[2], U8_MAX - self.packet)
        buf == SubSeq(rx, 3, 2 + PACKET_LEN)
    IN  IF Len(rx) < 1
        THEN PacketResult("UnexpectedEof", 0, self.packet, tx, <<>>)
        ELSE IF num.err # ""
        THEN PacketResult(num.err, 0, self.packet, tx \o num.tx, <<>>)
        ELSE IF Len(rx) < 2
        THEN PacketResult("UnexpectedEof", 0, self.packet, tx, <<>>)
        ELSE IF cpl.err # ""
        THEN PacketResult(cpl.err, 0, self.packet, tx \o cpl.tx, <<>>)
        ELSE IF Len(rx) < 3 + PACKET_LEN
        THEN PacketResult("UnexpectedEof", 0, self.packet, tx,
                          SubSeq(rx, 3, Len(rx)))
        ELSE read_packet_tail(self, tx, buf, rx[3 + PACKET_LEN])

\* lib.rs:249-253, the EOT arm of read_packet: rx holds the bytes that follow
\* the first EOT
read_packet_eot(self, tx, rx) ==
    IF Len(rx) < 1
    THEN PacketResult("UnexpectedEof", 0, self.packet, tx \o <<NAK>>, <<>>)
    ELSE LET e == expect_byte_or_cancel(rx[1], EOT)
         IN  IF e.err # ""
             THEN PacketResult(e.err, 0, self.packet, tx \o <<NAK>> \o e.tx, <<>>)
             ELSE PacketResult("Ok", 0, self.packet, tx \o <<NAK, ACK>>, <<>>)

\* lib.rs:241-276, Xmodem::read_packet(buf) with a buffer of buf_len bytes,
\* while the line yields the bytes rx and then nothing more
read_packet(self, buf_len, rx) ==
    LET tx == IF self.packet = 1 THEN <<NAK>> ELSE <<>>
    IN  IF buf_len < PACKET_LEN
        THEN PacketResult("UnexpectedEof", 0, self.packet, <<>>, <<>>)
        ELSE IF Len(rx) < 1
        THEN PacketResult("UnexpectedEof", 0, self.packet, tx, <<>>)
        ELSE IF rx[1] = CAN
        THEN PacketResult("ConnectionAborted", 0, self.packet, tx, <<>>)
        ELSE IF rx[1] = EOT
        THEN read_packet_eot(self, tx, Tail(rx))
        ELSE IF rx[1] = SOH
        THEN read_packet_soh(self, tx, Tail(rx))
        ELSE PacketResult("InvalidData", 0, self.packet, tx \o <<CAN>>, <<>>)

\* ---- what the sender puts on the line ----
\* the data of a packet
Payloads == [1 .. PACKET_LEN -> {0, 1}]

\* a packet as the sender frames it: SOH, number, complement, data, checksum
Frame(num, cpl, data, cksum) == <<SOH, num, cpl>> \o data \o <<cksum>>

\* the bytes that may follow while the receiver expects packet number pkt:
\* packets with the right or a wrong number, complement and checksum, the end
\* of the transmission, a cancellation, a stray byte
Lines(pkt) ==
    {Frame(num, cpl, data, cksum) :
        num \in {pkt, u8_wrapping_add(pkt, 1), CAN},
        cpl \in {U8_MAX - pkt, u8_wrapping_add(U8_MAX - pkt, 1)},
        data \in Payloads,
        cksum \in {0, 1, 2}}
      \cup {<<EOT, EOT>>, <<EOT, CAN>>, <<EOT, 0>>, <<CAN>>, <<0>>}

\* the line may fall silent after any byte
Prefixes(S) == UNION {{SubSeq(s, 1, k) : k \in 0 .. Len(s)} : s \in S}

\* the calls of read_packet: a buffer of a packet's size with any line, or a
\* buffer that is too short
Calls(pkt) ==
    {[buf_len |-> PACKET_LEN, rx |-> s] : s \in Prefixes(Lines(pkt))}
      \cup {[buf_len |-> PACKET_LEN - 1, rx |-> <<>>]}

\* the line held a whole packet with the expected number, its complement and
\* the checksum of its data
GoodPacket(pkt, call) ==
    /\ call.buf_len >= PACKET_LEN
    /\ Len(call.rx) = 3 + PACKET_LEN + 1
    /\ call.rx[1] = SOH
    /\ call.rx[2] = pkt
    /\ call.rx[3] = U8_MAX - pkt
    /\ call.rx[3 + PACKET_LEN + 1]
         = get_checksum(SubSeq(call.rx, 4, 3 + PACKET_LEN))

\* a whole packet with the expected number and complement, the checksum wrong
BadChecksum(pkt, call) ==
    /\ call.buf_len >= PACKET_LEN
    /\ Len(call.rx) = 3 + PACKET_LEN + 1
    /\ call.rx[1] = SOH
    /\ call.rx[2] = pkt
    /\ call.rx[3] = U8_MAX - pkt
    /\ call.rx[3 + PACKET_LEN + 1]
         # get_checksum(SubSeq(call.rx, 4, 3 + PACKET_LEN))

\* what the line held, as far as the receiver's answer depends on it
Received(pkt, call) ==
    IF GoodPacket(pkt, call) THEN "packet"
    ELSE IF BadChecksum(pkt, call) THEN "bad checksum"
    ELSE IF call.buf_len >= PACKET_LEN /\ Len(call.rx) >= 1 /\ call.rx[1] = EOT
    THEN IF Len(call.rx) >= 2 /\ call.rx[2] = EOT THEN "EOT EOT" ELSE "EOT"
    ELSE "other"

NoXmCall ==
    [op |-> "none", received |-> "", ret |-> "", n |-> 0, tx |-> <<>>,
     before |-> 1]

\* a receiver that has read nothing yet
InitXm ==
    /\ xmodem = Xmodem_new(FALSE)
    /\ xmobs = NoXmCall

\* the same, in either build
InitXmodem ==
    /\ \E b \in BOOLEAN : xmodem = Xmodem_new(b)
    /\ xmobs = NoXmCall

\* Xmodem::read_packet is called (as receive_with_progress does, lib.rs:99)
ReadPacket ==
    /\ xmobs.ret # "panic"
    /\ \E call \in Calls(xmodem.packet) :
          LET r == read_packet(xmodem, call.buf_len, call.rx)
          IN  /\ xmodem' = [xmodem EXCEPT !.packet = r.packet]
              /\ xmobs' = [op |-> "read_packet",
                           received |-> Received(xmodem.packet, call),
                           ret |-> r.ret, n |-> r.n, tx |-> r.tx,
                           before |-> xmodem.packet]
    /\ UNCHANGED <<allocVars, schedVars, vmVars, fsVars, lockVars, linkVars>>

\* ---- Xmodem::transmit paired with Xmodem::receive ----
\* The sender and the receiver are joined by a line that loses and reorders
\* nothing: what one side writes the other reads, in order, and a read waits
\* for the next byte.  Each side runs its loop; a step goes from one read
\* of the line to the next.

\* the attempts per packet (lib.rs:65, lib.rs:100)
MaxTries == 10

\* the inputs: every length up to one packet more than the packet numbers
\* there are, bytes that run through the values of u8
MaxPackets == U8_MAX + 2
Strides == {1, 5}
Datas ==
    {[i \in 1 .. len |-> (i * k) % (U8_MAX + 1)] :
        len \in 0 .. MaxPackets * PACKET_LEN, k \in Strides}

\* lib.rs:207-216, expect_byte(byte, _) when the line yields byte_read: the
\* error it returns ("" for Ok)
expect_byte(byte_read, byte) ==
    IF byte_read = byte THEN ""
    ELSE IF byte_read = CAN THEN "ConnectionAborted"
    ELSE "InvalidData"

\* lib.rs:58-59, data.read_max(&mut packet) from position pos on, the rest
\* of the packet zeroed
read_max(data, pos) ==
    LET n == IF Len(data) - pos < PACKET_LEN THEN Len(data) - pos ELSE PACKET_LEN
    IN  [n |-> n,
         packet |-> [i \in 1 .. PACKET_LEN |-> IF i <= n THEN data[pos + i] ELSE 0]]

\* lib.rs:327-336, what write_packet(buf) puts on the line for a packet
write_packet_frame(self, buf) ==
    Frame(self.packet, U8_MAX - self.packet, buf, get_checksum(buf))

\* lib.rs:337-348, the end of write_packet: the receiver's answer is read;
\* the `+= 1` on the u8 wraps, or panics in a build with overflow checks
write_packet_ack(self, ack, write_size) ==
    IF ack = CAN
    THEN [ret |-> "ConnectionAborted", n |-> 0, packet |-> self.packet]
    ELSE IF ack = ACK
    THEN IF self.packet = U8_MAX /\ self.overflow_checks
         THEN [ret |-> "panic", n |-> 0, packet |-> self.packet]
         ELSE [ret |-> "Ok", n |-> write_size,
               packet |-> u8_wrapping_add(self.packet, 1)]
    ELSE IF ack = NAK
    THEN [ret |-> "Interrupted", n |-> 0, packet |-> self.packet]
    ELSE [ret |-> "InvalidData", n |-> 0, packet |-> self.packet]

\* lib.rs:54-56 and lib.rs:97-99: both sides as transmit_with_progress and
\* receive_with_progress set them up, nothing on the line.  tpc and rpc say
\* where the sender and the receiver are, tret and rret what transmit and
\* receive have returned; handshakes lists, for every NAK the receiver wrote
\* because its packet number was 1, the bytes it had received by then.
Link_new(data, overflow_checks) ==
    [data |-> data, pos |-> 0,
     transmitter |-> Xmodem_new(overflow_checks), tpc |-> "next",
     packet |-> <<>>, n |-> 0, written |-> 0, ttries |-> 0, tret |-> "",
     receiver |-> Xmodem_new(overflow_checks), rpc |-> "next",
     received |-> 0, into |-> <<>>, rtries |-> 0, rret |-> "",
     to_receiver |-> <<>>, to_transmitter |-> <<>>, handshakes |-> <<>>]

\* no data, and both sides yet to begin
InitLink == link = Link_new(<<>>, FALSE)

\* lib.rs:314 and lib.rs:327-336, write_packet up to its next read once
\* the initial NAK is dealt with: the first EOT, or the whole packet
write_packet_send(l) ==
    IF l.packet = <<>>
    THEN [l EXCEPT !.to_receiver = @ \o <<EOT>>, !.tpc = "eot_nak"]
    ELSE [l EXCEPT !.to_receiver = @ \o write_packet_frame(l.transmitter, l.packet),
                   !.tpc = "ack"]

\* lib.rs:308-326, write_packet begins: it waits for the receiver's NAK when
\* the packet number is 1
write_packet_begin(l) ==
    IF l.transmitter.packet = 1
    THEN [l EXCEPT !.tpc = "handshake"]
    ELSE write_packet_send(l)

\* lib.rs:61 and lib.rs:65-76, write_packet has returned Err(e): the end of
\* the transmission is not tried again, a packet is after Interrupted, ten
\* times in all
transmit_err(l, e) ==
    IF e = "Interrupted" /\ l.packet # <<>>
    THEN IF l.ttries + 1 < MaxTries
         THEN write_packet_begin([l EXCEPT !.ttries = @ + 1])
         ELSE [l EXCEPT !.tret = "BrokenPipe", !.tpc = "done"]
    ELSE [l EXCEPT !.tret = e, !.tpc = "done"]

\* lib.rs:100-103 and lib.rs:113, read_packet has returned Err(e)
receive_err(l, e) ==
    IF e = "Interrupted"
    THEN IF l.rtries + 1 < MaxTries
         THEN [l EXCEPT !.rtries = @ + 1, !.rpc = "next"]
         ELSE [l EXCEPT !.rret = "BrokenPipe", !.rpc = "done"]
    ELSE [l EXCEPT !.rret = e, !.rpc = "done"]

LinkStep(l) ==
    /\ link' = l
    /\ UNCHANGED <<allocVars, schedVars, vmVars, xmVars, fsVars, lockVars>>

\* lib.rs:57-65, the loop of transmit_with_progress goes round: the next
\* packet is read from data and write_packet is called, with &[] at the end
TransmitNext ==
    /\ link.tpc = "next"
    /\ LET r == read_max(link.data, link.pos)
       IN  LinkStep(write_packet_begin(
               [link EXCEPT !.pos = @ + r.n, !.n = r.n, !.ttries = 0,
                            !.packet = IF r.n = 0 THEN <<>> ELSE r.packet]))

\* lib.rs:311-313 and lib.rs:324-326, the sender reads the initial NAK
TransmitHandshake ==
    /\ link.tpc = "handshake"
    /\ link.to_transmitter # <<>>
    /\ LET e == expect_byte(Head(link.to_transmitter), NAK)
           l == [link EXCEPT !.to_transmitter = Tail(@)]
       IN  LinkStep(IF e # "" THEN transmit_err(l, e) ELSE write_packet_send(l))

\* lib.rs:337-348 and lib.rs:66-73, the sender reads the answer to a packet
TransmitAck ==
    /\ link.tpc = "ack"
    /\ link.to_transmitter # <<>>
    /\ LET r == write_packet_ack(link.transmitter, Head(link.to_transmitter),
                                 Len(link.packet))
           l == [link EXCEPT !.to_transmitter = Tail(@)]
       IN  LinkStep(
             CASE r.ret = "Ok" ->
                    [l EXCEPT !.transmitter.packet = r.packet,
                              !.written = @ + l.n, !.tpc = "next"]
               [] r.ret = "panic" -> [l EXCEPT !.tret = "panic", !.tpc = "done"]
               [] OTHER -> transmit_err(l, r.ret))

\* lib.rs:315-316, the sender reads the answer to the first EOT and writes
\* the second
TransmitEotNak ==
    /\ link.tpc = "eot_nak"
    /\ link.to_transmitter # <<>>
    /\ LET e == expect_byte(Head(link.to_transmitter), NAK)
           l == [link EXCEPT !.to_transmitter = Tail(@)]
       IN  LinkStep(IF e # "" THEN transmit_err(l, e)
                    ELSE [l EXCEPT !.to_receiver = @ \o <<EOT>>, !.tpc = "eot_ack"])

\* lib.rs:317-318 and lib.rs:61-62, the sender reads the answer to the
\* second EOT; transmit returns Ok(written)
TransmitEotAck ==
    /\ link.tpc = "eot_ack"
    /\ link.to_transmitter # <<>>
    /\ LET e == expect_byte(Head(link.to_transmitter), ACK)
           l == [link EXCEPT !.to_transmitter = Tail(@)]
       IN  LinkStep(IF e # "" THEN transmit_err(l, e)
                    ELSE [l EXCEPT !.tret = "Ok", !.tpc = "done"])

\* lib.rs:100-101 and lib.rs:242-247, the loop of receive_with_progress goes
\* round and read_packet begins: NAK is written when the packet number is 1
ReceiveNext ==
    /\ link.rpc = "next"
    /\ LinkStep(IF link.receiver.packet = 1
                THEN [link EXCEPT !.to_transmitter = @ \o <<NAK>>,
                                  !.handshakes = Append(@, link.received),
                                  !.rpc = "first"]
                ELSE [link EXCEPT !.rpc = "first"])

\* lib.rs:248-275 and lib.rs:102-110, the receiver reads the first byte of
\* what the sender wrote and acts on it; a packet is read to its end (the
\* sender writes a packet without a read in between)
ReceiveFirst ==
    /\ link.rpc = "first"
    /\ link.to_receiver # <<>>
    /\ Head(link.to_receiver) = SOH => Len(link.to_receiver) >= PACKET_LEN + 4
    /\ LET rx == link.to_receiver
           byte_read == Head(rx)
           l == [link EXCEPT !.to_receiver = Tail(@)]
       IN  LinkStep(
             CASE byte_read = CAN -> receive_err(l, "ConnectionAborted")
               [] byte_read = EOT ->
                    [l EXCEPT !.to_transmitter = @ \o <<NAK>>, !.rpc = "eot"]
               [] byte_read = SOH ->
                    LET r == read_packet_soh(link.receiver, <<>>,
                                             SubSeq(rx, 2, PACKET_LEN + 4))
                        m == [l EXCEPT !.to_receiver = SubSeq(rx, PACKET_LEN + 5, Len(rx)),
                                       !.to_transmitter = @ \o r.tx]
                    IN  CASE r.ret = "Ok" ->
                               [m EXCEPT !.receiver.packet = r.packet,
                                         !.received = @ + r.n,
                                         !.into = @ \o r.buf,
                                         !.rtries = 0, !.rpc = "next"]
                          [] r.ret = "panic" ->
                               [m EXCEPT !.rret = "panic", !.rpc = "done"]
                          [] OTHER -> receive_err(m, r.ret)
               [] OTHER ->
                    receive_err([l EXCEPT !.to_transmitter = @ \o <<CAN>>],
                                "InvalidData"))

\* lib.rs:251-253 and lib.rs:104, the receiver reads the second EOT;
\* read_packet returns Ok(0) and receive returns Ok(received)
ReceiveEot ==
    /\ link.rpc = "eot"
    /\ link.to_receiver # <<>>
    /\ LET e == expect_byte_or_cancel(Head(link.to_receiver), EOT)
           l == [link EXCEPT !.to_receiver = Tail(@),
                             !.to_transmitter = @ \o e.tx]
       IN  LinkStep(IF e.err # "" THEN receive_err(l, e.err)
                    ELSE [l EXCEPT !.to_transmitter = @ \o <<ACK>>,
                                   !.rret = "Ok", !.rpc = "done"])

(***************************************************************************)
(* Part 5: the sector cache (lib/fat32/src/vfat/cache.rs)                  *)
(*                                                                         *)
(* A logical sector is LogicalSectorSize \div DeviceSectorSize device      *)
(* sectors long; its data is the sequence of the values of its device      *)
(* sectors.  The device holds a fixed value in every sector and each read  *)
(* of it may fail.                                                         *)
(***************************************************************************)
\* Partition.num_sectors: logical sectors 0 .. NumSectors - 1 exist
NumSectors == 2
\* Partition.start
PartitionStart == 1
\* Partition.sector_size and device.sector_size(), in bytes
LogicalSectorSize == 2
DeviceSectorSize == 1
\* the values a byte of a sector takes
MaxData == 1

\* CachedPartition::factor
factor == LogicalSectorSize \div DeviceSectorSize

\* CachedPartition::virtual_to_physical: NONE when out of range
virtual_to_physical(virt) ==
    IF virt >= NumSectors THEN NONE ELSE PartitionStart + virt * factor

\* what the device holds in a physical sector
device_data(physical) == physical % (MaxData + 1)

\* the loop of reads that fills a fresh vector (cache.rs:99-107, 124-132):
\* fail_at is the round whose read_sector fails, factor when none does
read_loop(physical_sector, fail_at) ==
    [ok |-> fail_at >= factor,
     vec |-> [i \in 1 .. factor |-> device_data(physical_sector + i - 1)]]

\* CachedPartition::new: HashMap::new(), a function of the cached sectors
CachedPartition_new == [s \in {} |-> 0]

\* HashMap::insert
insert(c, k, v) == [x \in DOMAIN c \cup {k} |-> IF x = k THEN v ELSE c[x]]

\* CachedPartition::get_mut: the result and the cache afterwards
get_mut(c, sector, fail_at) ==
    LET physical_sector == virtual_to_physical(sector)
        r == read_loop(physical_sector, fail_at)
    IN  IF physical_sector = NONE THEN [kind |-> "Err", cache |-> c, data |-> <<>>]
        ELSE IF sector \notin DOMAIN c
             THEN \* not cached: read it, insert it clean, hand it out
                  IF ~r.ok THEN [kind |-> "Err", cache |-> c, data |-> <<>>]
                  ELSE [kind |-> "Ok", data |-> r.vec,
                        cache |-> insert(c, sector,
                                         [data |-> r.vec, dirty |-> FALSE])]
        ELSE IF c[sector].dirty = FALSE
             THEN \* the slice 0 .. sector_size of the data always exists
                  [kind |-> "Ok", data |-> c[sector].data, cache |-> c]
        ELSE \* dirty: the data is read again from the device
             IF ~r.ok THEN [kind |-> "Err", cache |-> c, data |-> <<>>]
             ELSE [kind |-> "Ok", data |-> r.vec,
                   cache |-> [c EXCEPT ![sector] =
                                  [data |-> r.vec, dirty |-> TRUE]]]

\* CachedPartition::get takes the same steps as get_mut (cache.rs:154-209)
get(c, sector, fail_at) == get_mut(c, sector, fail_at)

\* <CachedPartition as BlockDevice>::write_sector: buf is copied into the
\* slice get_mut hands out
write_sector(c, sector, buf, fail_at) ==
    LET r == get_mut(c, sector, fail_at)
    IN  IF r.kind = "Err" THEN r
        ELSE [kind |-> "Ok", data |-> buf,
              cache |-> [r.cache EXCEPT ![sector].data = buf]]

\* the sectors asked for (one is out of range) and the buffers written
Sectors == 0 .. NumSectors
Buffers == [1 .. factor -> 0 .. MaxData]

NoFsCall == [op |-> "none", sector |-> 0, ret |-> "", data |-> <<>>]

\* Mutex::new(None) (scheduler.rs:30): unlocked
InitLock == mutex = NONE

InitFs ==
    /\ cache = CachedPartition_new
    /\ cobs = NoFsCall

CObserve(op, sector, r) ==
    /\ cache' = r.cache
    /\ cobs' = [op |-> op, sector |-> sector, ret |-> r.kind, data |-> r.data]
    /\ UNCHANGED <<allocVars, schedVars, vmVars, xmVars, lockVars, linkVars>>

GetMut ==
    \E sector \in Sectors, fail_at \in 0 .. factor :
        CObserve("get_mut", sector, get_mut(cache, sector, fail_at))

Get ==
    \E sector \in Sectors, fail_at \in 0 .. factor :
        CObserve("get", sector, get(cache, sector, fail_at))

WriteSector ==
    \E sector \in Sectors, buf \in Buffers, fail_at \in 0 .. factor :
        CObserve("write_sector", sector, write_sector(cache, sector, buf, fail_at))

(***************************************************************************)
(* Part 2, continued: probes, initial states and specifications           *)
(***************************************************************************)
\* the most invocations a counting poll waits for
MaxPolls == 2

\* the states a queued process can be in
ProbeStates ==
    {Ready, Running, Dead, Waiting(PollNever)}
      \cup {Waiting(sleep_fn(0, ms)) : ms \in SleepMs}
      \cup {Waiting(count_fn(0, k)) : k \in 1 .. MaxPolls}

\* a queue of one process, Id 1, in any state, with any saved x0 and x7
InitIsReady ==
    /\ new_at(<<8, 32>>)
    /\ \E st \in ProbeStates, x0 \in 0 .. 1, x7 \in 0 .. 1 :
          processes = <<[context |-> [DefaultFrame EXCEPT
                                         !.tpidr_el0 = 1, !.x0 = x0, !.x7 = x7],
                         state |-> st]>>
    /\ last_id = 1
    /\ tf = [c \in Cores |-> DefaultFrame]
    /\ pc = [c \in Cores |-> "switch_to"]
    /\ now = 0
    /\ sret = NoSchedCall
    /\ killed = {}
    /\ rr = RROff
    /\ trap = [c \in Cores |-> NoTrap]
    /\ InitVm
    /\ InitXm /\ InitFs /\ InitLock /\ InitLink

\* ---- specifications ----
InitAll == InitAlloc /\ InitSched /\ InitVm /\ InitXm /\ InitFs /\ InitLock /\ InitLink
InitSchedOnly == new_at(<<8, 32>>) /\ InitSched /\ InitVm /\ InitXm /\ InitFs /\ InitLock /\ InitLink

\* the allocator alone
SpecAlloc == InitAll /\ [][NextAlloc]_vars

\* One core (core 0), and only switch(Ready, tf) called: from kmain with a
\* fresh frame, then by the timer interrupt as time passes.
NextRR ==
    \/ AddRR(0)
    \/ SwitchFresh(0)
    \/ Start(0)
    \/ TimerIrq(0)
    \/ SwitchTo(0)
    \/ Tick

SpecRR == InitSchedOnly /\ [][NextRR]_vars

\* One core, and the scheduler calls this kernel makes: add (in initialize)
\* and start from kmain, switch from the timer interrupt, sys_sleep and
\* sys_exit.
NextKernel ==
    \/ InitializeAdd(0)
    \/ Start(0)
    \/ TimerIrq(0)
    \/ SysSleep(0)
    \/ SysExit(0)
    \/ SwitchTo(0)
    \/ Tick

\* the timer interrupt recurs, kmain reaches start(), the loop of switch_to
\* goes on and time passes
FairKernel ==
    /\ WF_vars(Start(0))
    /\ WF_vars(TimerIrq(0))
    /\ WF_vars(SwitchTo(0))
    /\ WF_vars(Tick)

SpecKernelFair == InitSchedOnly /\ [][NextKernel]_vars /\ FairKernel

\* One core, every operation of GlobalScheduler.
NextSched ==
    \/ Add(0)
    \/ Start(0)
    \/ SwitchFresh(0)
    \/ TimerIrq(0)
    \/ SysSleep(0)
    \/ SysExit(0)
    \/ SwitchWaiting(0)
    \/ SwitchTo(0)
    \/ Kill(0)
    \/ Tick

SpecSched == InitSchedOnly /\ [][NextSched]_vars

\* Every core: kmain on core 0 adds the processes, each core calls start(),
\* takes timer interrupts and runs the loop of switch_to; a process may exit.
\* Each critical section (GlobalScheduler::critical, scheduler.rs:35-41) is
\* one step; steps of different cores interleave.
NextMulti ==
    \/ InitializeAdd(0)
    \/ \E c \in Cores : Start(c)
    \/ \E c \in Cores : TimerIrq(c)
    \/ \E c \in Cores : SysExit(c)
    \/ \E c \in Cores : SwitchTo(c)

SpecMulti == InitSchedOnly /\ [][NextMulti]_vars

\* One core, processes that sleep and exit, over a time long enough for a
\* sleep of one millisecond to end.
MaxTimeSleep == 4
SysSleepLong(c) == SysSleepUpTo(c, MaxTimeSleep)
TickLong == TickUpTo(MaxTimeSleep)

NextSleep ==
    \/ InitializeAdd(0)
    \/ Start(0)
    \/ TimerIrq(0)
    \/ SysSleepLong(0)
    \/ SysExit(0)
    \/ SwitchTo(0)
    \/ TickLong

SpecSleep == InitSchedOnly /\ [][NextSleep]_vars

\* One core, the exceptions handle_exception is entered for from a user
\* process: the timer interrupt, the system calls that return to the caller,
\* exit, faults.
NextSyscall ==
    \/ InitializeAdd(0)
    \/ Start(0)
    \/ TimerIrq(0)
    \/ SysTime(0)
    \/ SysExit(0)
    \/ SysWrite(0)
    \/ SysGetpid(0)
    \/ SysUnknown(0)
    \/ Fault(0)
    \/ SwitchTo(0)

SpecSyscall == InitSchedOnly /\ [][NextSyscall]_vars

\* One core, brk and the debug shell, among processes that are preempted and
\* exit.
NextShell ==
    \/ InitializeAdd(0)
    \/ Start(0)
    \/ TimerIrq(0)
    \/ SysExit(0)
    \/ Brk(0)
    \/ ShellSleep(0)
    \/ ShellExit(0)
    \/ SwitchTo(0)
    \/ Tick

SpecShell == InitSchedOnly /\ [][NextShell]_vars

\* Process::is_ready alone, called again and again as time passes
NextIsReady ==
    \/ IsReady(0)
    \/ Tick

SpecIsReady == InitIsReady /\ [][NextIsReady]_vars

(***************************************************************************)
(* Allocator claims                                                        *)
(***************************************************************************)
Max(a, b) == IF a > b THEN a ELSE b

\* the smallest power of two that is >= n
RECURSIVE NextPow2From(_, _)
NextPow2From(p, n) == IF p >= n THEN p ELSE NextPow2From(2 * p, n)
NextPow2(n) == NextPow2From(1, n)

Overlap(a, b) == a.addr < b.addr + b.size /\ b.addr < a.addr + a.size

\* C1: the byte ranges [addr, addr+size) of all live allocations are pairwise
\* disjoint, after any sequence of alloc and dealloc calls (each dealloc given
\* a live block with its layout), also when the alignment-padding heuristic
\* has truncated `end` and reset `current`.
C1_LiveDisjoint ==
    \A a \in live : \A b \in live : a # b => ~Overlap(a, b)

\* C2: every non-null address alloc(size, align) returns is a multiple of
\* align and of the smallest power of two >= max(size, align), for every
\* size > 0 and power-of-two align, also above 8192.
C2_Aligned ==
    (last.kind = "alloc" /\ last.ptr # NULL) =>
        /\ last.ptr % last.align = 0
        /\ last.ptr % NextPow2(Max(last.size, last.align)) = 0

\* C3: every non-null address alloc(size, align) returns satisfies
\* addr >= region_start and addr + size <= the original region_end, also for
\* sizes above the largest class of 8192 bytes.
C3_InRegion ==
    (last.kind = "alloc" /\ last.ptr # NULL) =>
        /\ last.ptr >= region[1]
        /\ last.ptr + last.size <= region[2]

\* C4: dealloc(p, layout) immediately followed by alloc(layout) with the
\* identical layout returns p, in every reachable allocator state, also after
\* the region has been exhausted.
C4_DeallocAllocLIFO ==
    (/\ prev.kind = "dealloc"
     /\ last.kind = "alloc"
     /\ last.size = prev.size
     /\ last.align = prev.align) => (~panicked /\ last.ptr = prev.ptr)

\* the bump region, as it was in allocator state a, cannot hold a block of the
\* class of (size, align)
BumpExhausted(a, size, align) ==
    LET c     == class_size(bin_index(size, align))
        start == a.current + ((c - (a.current % c)) % c)
    IN  start + c > a.end

\* C4 witness: a block is freed and re-allocated with the same layout while
\* the bump region can no longer serve that layout.
C4_Witness ==
    /\ prev.kind = "dealloc"
    /\ last.kind = "alloc"
    /\ last.size = prev.size
    /\ last.align = prev.align
    /\ last.ptr = prev.ptr
    /\ last.ptr # NULL
    /\ BumpExhausted(pre, last.size, last.align)
    /\ Len(pre.bins[bin_index(last.size, last.align)]) = 1

\* C5: alloc returns null, without panicking, when size is 0, when align is
\* no power of two, or when the bump region cannot hold the class-size block;
\* and a null-returning alloc leaves current, end and every free list as they
\* were before the call.
C5_NullNoPanicNoChange ==
    /\ (/\ last.kind = "alloc"
        /\ \/ last.size = 0
           \/ count_ones(last.align) > 1
           \/ /\ pre.bins[bin_index(last.size, last.align)] = <<>>
              /\ BumpExhausted(pre, last.size, last.align))
       => (~panicked /\ last.ptr = NULL)
    /\ (last.kind = "alloc" /\ last.ptr = NULL)
       => (current = pre.current /\ end = pre.end /\ bins = pre.bins)

(***************************************************************************)
(* Allocator invariants                                                    *)
(***************************************************************************)
\* the free-list nodes: list, position and address
Nodes == {n \in (0 .. NUM_BINS - 1) \X (1 .. MaxOps) : n[2] <= Len(bins[n[1]])}
NodeBlock(n) == [addr |-> bins[n[1]][n[2]], size |-> class_size(n[1])]

\* the bump region [current, end)
BumpRegion == [addr |-> current, size |-> IF end > current THEN end - current ELSE 0]
InBump(b) == BumpRegion.size > 0 /\ Overlap(b, BumpRegion)

\* a node lies on exactly one list
C32_OneList ==
    \A n \in Nodes : \A m \in Nodes : n # m => NodeBlock(n).addr # NodeBlock(m).addr
\* the node on list k has 2^(k+3) bytes of the region to itself
C32_Capacity ==
    \A n \in Nodes :
        /\ NodeBlock(n).addr >= region[1]
        /\ NodeBlock(n).addr + NodeBlock(n).size <= region[2]
        /\ \A m \in Nodes : n # m => ~Overlap(NodeBlock(n), NodeBlock(m))
C32_NodesOutsideBump == \A n \in Nodes : ~InBump(NodeBlock(n))
C32_LiveOutsideBump == \A b \in live : ~InBump(b)

\* C32: in every reachable allocator state every free-list node lies on
\* exactly one list, the node on list k has a capacity of at least 2^(k+3)
\* bytes, no free-list node's range overlaps the bump region [current, end),
\* and no live allocated block overlaps [current, end).
C32_AllocatorInvariants ==
    /\ C32_OneList
    /\ C32_Capacity
    /\ C32_NodesOutsideBump
    /\ C32_LiveOutsideBump

\* the latest call was a bump-path alloc that found the padding before the
\* block greater than the tail after it
PaddingExceedsTail ==
    /\ last.kind = "alloc"
    /\ last.ptr # NULL
    /\ pre.bins[bin_index(last.size, last.align)] = <<>>
    /\ last.ptr - pre.current
         > pre.end - (last.ptr + class_size(bin_index(last.size, last.align)))

\* C33: when a bump-path alloc finds that the alignment padding before the
\* reserved block exceeds the tail after it, `end` is truncated to just
\* before the reserved block (end <= the start of the returned block), so
\* that the bump region left, from which every later block is cut, lies
\* below the returned block.
C33_TruncatesBeforeBlock ==
    PaddingExceedsTail => (end <= last.ptr /\ current <= end)


(***************************************************************************)
(* Scheduler claims                                                        *)
(***************************************************************************)
InQueue(q, id) == \E i \in 1 .. Len(q) : q[i].context.tpidr_el0 = id
StateOf(q, id) == q[CHOOSE i \in 1 .. Len(q) : q[i].context.tpidr_el0 = id].state

\* this step is a call of scheduler operation op
Called(op) == sret'.seq # sret.seq /\ sret'.op = op

\* C6: on one core, with a queue of k Ready processes with distinct Ids, the
\* successive switch(Ready, tf) calls, the first from a fresh trap frame,
\* select the Ids in enqueue order, each once before any repeats (the i-th
\* call selects the ((i-1) mod k)+1-th process of the queue); for k = 3 and
\* four calls the selected Ids are 1, 2, 3, 1.
C6_RoundRobin ==
    rr.on =>
        /\ \A i \in 1 .. Len(rr.sel) :
              rr.sel[i] = rr.base[((i - 1) % Len(rr.base)) + 1]
        /\ (rr.base = <<1, 2, 3>> /\ Len(rr.sel) = 4) => rr.sel = <<1, 2, 3, 1>>

\* C6 witness: three processes added, four switch(Ready) calls made.
C6_Witness ==
    /\ rr.on
    /\ rr.base = <<1, 2, 3>>
    /\ rr.sel = <<1, 2, 3, 1>>
    /\ sret.op = "switch_to"

\* a process that is Ready, or Waiting on a poll that from some point on
\* always returns true (the sleep poll, once time has passed its deadline)
Eligible(id) ==
    /\ InQueue(processes, id)
    /\ \/ StateOf(processes, id) = Ready
       \/ /\ StateOf(processes, id).kind = "Waiting"
          /\ StateOf(processes, id).poll.kind = "sleep"

IsRunning(id) == InQueue(processes, id) /\ StateOf(processes, id) = Running

\* C7: no starvation: under recurring timer interrupts every process in the
\* queue that is Ready, or Waiting with a poll that from some point on always
\* returns true, is eventually selected and becomes Running, whatever the
\* other processes are.
C7_NoStarvation ==
    \A id \in 1 .. U64_MAX : Eligible(id) ~> IsRunning(id)

\* C7 witness: a process that was Waiting in sys_sleep has been selected and
\* is Running, with the other process of the queue Waiting as well.
C7_Witness ==
    /\ sret.op = "switch_to"
    /\ sret.ok
    /\ sret.from = "Waiting"
    /\ IsRunning(sret.id)
    /\ \E i \in 1 .. Len(processes) : processes[i].state.kind = "Waiting"

WaitingNever(p) == p.state = Waiting(PollNever)

\* C8: a process Waiting on a poll that returns false on every invocation is
\* never selected: whatever add, switch and kill calls follow, it stays in the
\* queue as it is, never Running, and switch_to never returns its Id.
C8_NeverSelected ==
    [][\A i \in 1 .. Len(processes) :
          WaitingNever(processes[i]) =>
             /\ \E j \in 1 .. Len(processes') : processes'[j] = processes[i]
             /\ Called("switch_to") => sret'.id # processes[i].context.tpidr_el0
      ]_vars

\* C8 witness: switch_to has selected a process while a process waiting on
\* the never-true poll stands in the queue.
C8_Witness ==
    /\ sret.op = "switch_to"
    /\ sret.ok
    /\ \E i \in 1 .. Len(processes) : WaitingNever(processes[i])

\* C9: kill(tf) called for the currently Running process reduces the queue
\* length by exactly one and returns that process's Id; the killed Id is in
\* the queue no more, and no later switch_to returns it.
C9_KillRemoves ==
    [][/\ (Called("kill") /\ sret'.ok) =>
             /\ Len(processes') = Len(processes) - 1
             /\ sret'.id = tf[sret'.core].tpidr_el0
             /\ sret'.id \in killed'
       /\ \A id \in killed' : ~InQueue(processes', id)
       /\ Called("switch_to") => sret'.id \notin killed'
      ]_vars

\* C9 witness: a process was killed and switch_to has since returned another.
C9_Witness ==
    /\ killed # {}
    /\ sret.op = "switch_to"
    /\ sret.ok

\* C10: if the last assigned Id is u64::MAX, add returns None and the queue
\* (length, order, states) and last_id are unchanged by the call.
C10_AddOverflow ==
    [][(Called("add") /\ last_id = U64_MAX) =>
          /\ sret'.id = NONE
          /\ processes' = processes
          /\ last_id' = last_id
      ]_vars

\* C10 witness: add was refused at last_id = u64::MAX with a non-empty queue.
C10_Witness ==
    /\ sret.op = "add"
    /\ sret.id = NONE
    /\ last_id = U64_MAX
    /\ processes # <<>>

\* the Ids assigned so far: those in the queue and those kill has removed
Assigned == {processes[i].context.tpidr_el0 : i \in 1 .. Len(processes)} \cup killed

\* C11: each successful add returns an Id greater than every Id returned
\* before (1 the first time), stores it in the added process's tpidr_el0 and
\* appends that process at the tail, leaving the processes already queued as
\* they were and in their order; no Id is assigned twice, also after the
\* process that held it was killed.
C11_AddMonotone ==
    [][(Called("add") /\ sret'.ok) =>
          /\ \A id \in Assigned : sret'.id > id
          /\ Assigned = {} => sret'.id = 1
          /\ Len(processes') = Len(processes) + 1
          /\ SubSeq(processes', 1, Len(processes)) = processes
          /\ processes'[Len(processes')].context.tpidr_el0 = sret'.id
      ]_vars

\* C11 witness: an Id was assigned after a lower Id had been killed, and the
\* new process stands behind one that was queued before it.
C11_Witness ==
    /\ sret.op = "add"
    /\ sret.ok
    /\ killed # {}
    /\ Len(processes) >= 2
    /\ processes[Len(processes)].context.tpidr_el0 = sret.id

\* the operations that run inside GlobalScheduler::critical
SchedOps == {"add", "schedule_out", "switch_to", "kill"}

\* C12: in the multi-core execution the schedule_out and the following
\* switch_to of one GlobalScheduler::switch call are atomic with respect to
\* the other cores: when a core's schedule_out is the latest scheduler
\* operation, the scheduler operation that takes effect next is that same
\* core's switch_to.
C12_SwitchAtomic ==
    [][(/\ sret.op = "schedule_out"
        /\ sret'.seq # sret.seq
        /\ sret'.op \in SchedOps) =>
          (sret'.core = sret.core /\ sret'.op = "switch_to")
      ]_vars

\* C13: is_ready returns true and leaves the state Ready when the state is
\* Ready; for Waiting(poll) it invokes poll exactly once (a counting poll
\* has counted one more call) and, if poll returned true, sets the state to
\* Ready and returns true, otherwise keeps the state Waiting with the same
\* poll and returns false; for Running and for Dead it returns false and
\* leaves the state unchanged.
C13_IsReady ==
    [][Called("is_ready") =>
          LET st  == processes[1].state
              st2 == processes'[1].state
              r   == sret'.ok
          IN  /\ st = Ready => (r /\ st2 = Ready)
              /\ st \in {Running, Dead} => (~r /\ st2 = st)
              /\ st.kind = "Waiting" =>
                    /\ r = poll_fn(st.poll, now)
                    /\ r => st2 = Ready
                    /\ ~r => /\ st2.kind = "Waiting"
                             /\ st2.poll.kind = st.poll.kind
                             /\ st.poll.kind = "count" =>
                                    /\ st2.poll.calls = st.poll.calls + 1
                                    /\ st2.poll.until = st.poll.until
                             /\ st.poll.kind # "count" => st2.poll = st.poll
      ]_vars

\* C13 witness: is_ready was called on a process waiting on a counting poll
\* that fires at its second invocation: the poll was invoked once, returned
\* false, and the process waits on with that poll.
C13_Witness ==
    /\ sret.op = "is_ready"
    /\ ~sret.ok
    /\ processes # <<>>
    /\ processes[1].state = Waiting(count_fn(1, 2))

\* C14: a process that called sleep(ms) at time T is not selected again before
\* time T + ms, and the frame it is resumed with has x7 = 1 and in x0 the
\* milliseconds elapsed (the difference of the millisecond clock readings,
\* within a millisecond of the time elapsed), at least ms.
C14_SleepResume ==
    [][(Called("switch_to") /\ sret'.ok /\ sret'.was.kind = "Waiting"
          /\ sret'.was.poll.kind = "sleep") =>
         LET poll == sret'.was.poll
             frame == tf'[sret'.core]
         IN  /\ now >= poll.ini_time + from_millis(poll.ms)
             /\ frame.tpidr_el0 = sret'.id
             /\ frame.x7 = 1
             /\ frame.x0 = as_millis(now) - as_millis(poll.ini_time)
             /\ from_millis(frame.x0) > (now - poll.ini_time) - TicksPerMs
             /\ from_millis(frame.x0) < (now - poll.ini_time) + TicksPerMs
             /\ frame.x0 >= poll.ms]_vars

\* a process that slept one millisecond from a time between two millisecond
\* readings of the clock has been resumed, with x0 >= 1
C14_Witness ==
    /\ sret.op = "switch_to" /\ sret.ok
    /\ sret.was.kind = "Waiting" /\ sret.was.poll.kind = "sleep"
    /\ sret.was.poll.ms = 1 /\ sret.was.poll.ini_time % TicksPerMs # 0
    /\ tf[sret.core].x7 = 1 /\ tf[sret.core].x0 >= 1
    /\ pc[sret.core] = "user"

\* the process with this Id is in the queue, waiting on a sleep poll that
\* returns false now
Sleeping(id) ==
    \E i \in 1 .. Len(processes) :
       /\ processes[i].context.tpidr_el0 = id
       /\ processes[i].state.kind = "Waiting"
       /\ processes[i].state.poll.kind = "sleep"
       /\ ~poll_fn(processes[i].state.poll, now)

\* C15: handling svc 1 puts the caller, Waiting on the sleep poll, at the tail
\* of the queue and enters the loop of switch_to; as long as the poll returns
\* false no step returns to that process, it stays Waiting in the queue, and
\* a round of switch_to that finds no ready process returns nothing and
\* leaves the core in the loop (also when the sleeper is the only process).
C15_SleepBlocks ==
    /\ [][(Called("schedule_out") /\ trap'[sret'.core].from = "sleep") =>
            LET c == sret'.core
                q == processes'
            IN  /\ sret'.ok
                /\ Len(q) = Len(processes)
                /\ q[Len(q)].context.tpidr_el0 = tf[c].tpidr_el0
                /\ q[Len(q)].state.kind = "Waiting"
                /\ q[Len(q)].state.poll.kind = "sleep"
                /\ q[Len(q)].state.poll.ini_time = now
                /\ q[Len(q)].state.poll.sleep_dur = from_millis(tf'[c].x0)
                /\ pc'[c] = "switch_to"]_vars
    /\ [][\A id \in 1 .. U64_MAX : Sleeping(id) =>
            /\ \A c \in Cores : ~(pc'[c] = "user" /\ tf'[c].tpidr_el0 = id)
            /\ InQueue(processes', id)
            /\ StateOf(processes', id).kind = "Waiting"]_vars
    /\ [][(Called("switch_to") /\ ~sret'.ok) =>
            /\ pc'[sret'.core] = "switch_to"
            /\ tf' = tf
            /\ Ids(processes') = Ids(processes)]_vars

\* the only process of the queue sleeps, and a round of switch_to has just
\* found nothing to run
C15_Witness ==
    /\ Len(processes) = 1
    /\ Sleeping(processes[1].context.tpidr_el0)
    /\ processes[1].state.poll.ms = 1
    /\ sret.op = "switch_to" /\ ~sret.ok
    /\ pc[0] = "switch_to"

\* C16: handle_syscall with a number other than 1..5 changes nothing: trap
\* frame (x7 and x0 included) and queue (order, states, contexts) are as
\* before, and the caller goes on running.
C16_UnknownSyscall ==
    [][(Called("handle_syscall") /\ sret'.num \notin 1 .. 5) =>
         /\ tf' = tf
         /\ processes' = processes
         /\ last_id' = last_id
         /\ pc' = pc
         /\ pc[sret'.core] = "user"]_vars

\* an unknown system call has been made by a process whose status register
\* x7 was still 0, and it still is
C16_Witness ==
    /\ sret.op = "handle_syscall" /\ sret.num \notin 1 .. 5
    /\ pc[sret.core] = "user"
    /\ tf[sret.core].x7 = 0
    /\ Len(processes) = 2

\* this step is core c handling the exit system call of the process it runs
ExitHandled(c) ==
    pc[c] = "user" /\ pc'[c] = "switch_to" /\ trap'[c].from = "exit"

\* C17: exit goes through switch(Dead, tf), not through kill: the step is a
\* schedule_out after which the caller is still in the queue (at the tail,
\* its Process and so its page table not dropped), Dead, and no Id has been
\* killed; a Dead process stays in the queue, Dead, and no later switch_to
\* selects it nor does any core return to it; when the exit handler returns,
\* the trap frame holds the context of another process, the one selected.
C17_ExitStaysDead ==
    /\ [][\A c \in Cores : ExitHandled(c) =>
            LET id == tf[c].tpidr_el0
                q == processes'
            IN  /\ sret'.op = "schedule_out" /\ sret'.ok
                /\ killed' = killed
                /\ Len(q) = Len(processes)
                /\ q[Len(q)].context.tpidr_el0 = id
                /\ q[Len(q)].state = Dead]_vars
    /\ [][\A id \in 1 .. U64_MAX :
            (InQueue(processes, id) /\ StateOf(processes, id) = Dead) =>
               /\ InQueue(processes', id)
               /\ StateOf(processes', id) = Dead
               /\ ~(Called("switch_to") /\ sret'.id = id)
               /\ \A c \in Cores : ~(pc'[c] = "user" /\ tf'[c].tpidr_el0 = id)]_vars
    /\ [][\A c \in Cores :
            (Called("switch_to") /\ sret'.core = c /\ sret'.ok
               /\ trap[c].from = "exit") =>
               /\ tf'[c].tpidr_el0 # trap[c].id
               /\ tf'[c].tpidr_el0 = sret'.id
               /\ processes'[1].context = tf'[c]
               /\ processes'[1].state = Running]_vars

\* a process has exited and is Dead at the tail of the queue, and the exit
\* handler has returned to another process
C17_Witness ==
    /\ Len(processes) = 2
    /\ processes[2].state = Dead
    /\ processes[1].state = Running
    /\ sret.op = "switch_to" /\ sret.ok
    /\ pc[0] = "user" /\ tf[0] = processes[1].context
    /\ killed = {}

\* the queue as the scheduler sees it: the Ids in order, each with its state
Queue(q) == [i \in 1 .. Len(q) |-> <<q[i].context.tpidr_el0, q[i].state>>]

C19_FaultNeverReturns ==
    [][Called("fault") =>
         /\ ~(pc'[sret'.core] = "user"
                /\ tf'[sret'.core].tpidr_el0 = tf[sret'.core].tpidr_el0)
         /\ processes' = processes]_vars

\* this step is core c taking an exception of kind Irq
IrqTaken(c) == pc[c] = "user" /\ trap'[c].from = "irq" /\ sret'.seq # sret.seq
                 /\ sret'.core = c /\ sret'.op = "schedule_out"

\* C20: an exception of kind Irq never reaches the arms that decode the
\* syndrome; its handler arms the timer for the next tick and calls
\* switch(Ready, tf), which puts the interrupted process, Ready with the trap
\* frame as its context, at the tail of the queue; when the handler returns,
\* the interrupted process is in the queue, Ready or selected again, and the
\* trap frame is the context of the process switch_to selected.
C20_IrqSwitch ==
    /\ [][(sret'.seq # sret.seq /\ sret'.op \in {"handle_syscall", "brk", "fault"})
            => ~sret'.irq]_vars
    /\ [][\A c \in Cores : IrqTaken(c) =>
            LET q == processes'
            IN  /\ sret'.ok
                /\ trap'[c].armed
                /\ pc'[c] = "switch_to"
                /\ Len(q) = Len(processes)
                /\ q[Len(q)] = [context |-> tf[c], state |-> Ready]]_vars
    /\ [][\A c \in Cores :
            (Called("switch_to") /\ sret'.core = c /\ sret'.ok
               /\ trap[c].from = "irq") =>
               /\ InQueue(processes', trap[c].id)
               /\ StateOf(processes', trap[c].id) \in {Ready, Running}
               /\ StateOf(processes', trap[c].id) = Running
                     => trap[c].id \in {tf'[d].tpidr_el0 : d \in Cores}
               /\ pc'[c] = "user"
               /\ tf'[c].tpidr_el0 = sret'.id
               /\ processes'[1] = [context |-> tf'[c], state |-> Running]]_vars


(***************************************************************************)
(* Part 3 specifications                                                   *)
(***************************************************************************)
\* page tables made, filled, dropped, and programs loaded
NextVm == VmNew \/ VmAlloc \/ VmDrop \/ DoLoad

SpecVm == InitSchedOnly /\ [][NextVm]_vars

\* locate applied to one address
NextLocate == Locate

InitLocateOnly ==
    new_at(<<8, 32>>) /\ InitSched /\ InitLocate /\ InitXm /\ InitFs /\ InitLock /\ InitLink
SpecLocate == InitLocateOnly /\ [][NextLocate]_vars


(***************************************************************************)
(* Claims about the page tables and the loader                             *)
(***************************************************************************)
\* the slots of a table's three L3 tables that hold a valid entry
ValidSlots(pt) ==
    {s \in (0 .. L3_TABLES - 1) \X (0 .. L3_ENTRIES - 1) : pt[s[1]][s[2]].valid}

\* the elements of a sequence
Range(f) == {f[i] : i \in DOMAIN f}

\* C21: dropping a UserPageTable with N valid L3 entries, wherever they lie
\* in the three L3 tables, makes exactly N deallocations, one for each mapped
\* page and each at the address the allocator returned for that page.
C21_DropFreesAll ==
    vmobs.op = "drop" =>
        /\ Len(vmobs.freed) = Cardinality(ValidSlots(vmobs.pre.l3))
        /\ Cardinality(Range(vmobs.freed)) = Len(vmobs.freed)
        /\ Range(vmobs.freed) = {g.ptr : g \in vmobs.pre.given}


\* the table-relative address of the latest alloc is mapped already
AlreadyMapped ==
    /\ vmobs.va >= USER_IMG_BASE
    /\ ~locate(vmobs.va - USER_IMG_BASE).panic
    /\ is_valid(vmobs.pre.l3, vmobs.va - USER_IMG_BASE)

\* C22: UserPageTable::alloc(va, perm) panics when va < USER_IMG_BASE and
\* when va is already mapped in the table; in both cases it panics before it
\* asks the allocator for a page and without changing any L3 entry.
C22_AllocPanics ==
    (vmobs.op = "alloc" /\ (vmobs.va < USER_IMG_BASE \/ AlreadyMapped)) =>
        /\ vmobs.panicked
        /\ vmobs.allocs = 0
        /\ vmap = vmobs.pre.l3
        /\ heap = vmobs.pre.heap

\* a second alloc of a mapped address has panicked
C22_Witness ==
    /\ vmobs.op = "alloc" /\ AlreadyMapped /\ vmobs.panicked
    /\ ValidSlots(vmap) # {}


\* the address locate was given, and what it returned
LocateVa == vmobs.va
LocateL2 == vmobs.image[1]
LocateL3 == vmobs.image[2]

\* the l2 index field of an address
L2Field(va) == (va \div (PAGE_SIZE * L3_ENTRIES)) % L2_ENTRIES

\* C23: for every page-aligned va in [USER_IMG_BASE, USER_IMG_BASE +
\* 3 * L3_ENTRIES * PAGE_SIZE), locate(va - USER_IMG_BASE) returns (l2, l3)
\* with l2 in {0,1,2} and l3 in [0, L3_ENTRIES) such that
\* l2 * L3_ENTRIES * PAGE_SIZE + l3 * PAGE_SIZE = va - USER_IMG_BASE; locate
\* panics for every address that is not page aligned and for every address
\* whose l2 index is 3 or more.
C23_Locate ==
    vmobs.op = "locate" =>
        /\ (LocateVa % PAGE_SIZE = 0 /\ LocateVa < 3 * L3_ENTRIES * PAGE_SIZE) =>
               /\ ~vmobs.panicked
               /\ LocateL2 \in {0, 1, 2}
               /\ LocateL3 \in 0 .. L3_ENTRIES - 1
               /\ LocateL2 * L3_ENTRIES * PAGE_SIZE + LocateL3 * PAGE_SIZE
                     = LocateVa
        /\ LocateVa % PAGE_SIZE # 0 => vmobs.panicked
        /\ L2Field(LocateVa) >= 3 => vmobs.panicked

\* locate has decomposed the last page of the third L3 table
C23_Witness ==
    /\ vmobs.op = "locate" /\ ~vmobs.panicked
    /\ LocateVa = (3 * L3_ENTRIES - 1) * PAGE_SIZE
    /\ LocateL2 = 2 /\ LocateL3 = L3_ENTRIES - 1


\* do_load has returned a Process
Loaded == vmobs.op = "do_load" /\ vmobs.ret = "Ok"

\* C24: after Process::do_load succeeds, the virtual page immediately below
\* the stack page is not mapped in the process's page table, whatever the
\* length of the file.
C24_GuardPage ==
    Loaded => ~is_valid(vmap, vmobs.stack - PAGE_SIZE - USER_IMG_BASE)


\* the image pages do_load mapped lie one after another from USER_IMG_BASE
Contiguous(image) ==
    \A k \in 1 .. Len(image) : image[k] = USER_IMG_BASE + (k - 1) * PAGE_SIZE

\* the file was found and a read of it met an error of the file system
ReadError ==
    /\ vmobs.file.present /\ ~vmobs.file.readable /\ vmobs.file.file_size > 0
    /\ Len(vmobs.image) >= 1

\* C25: Process::do_load maps image pages contiguously from USER_IMG_BASE,
\* one page per read: after a full-page read it goes on with the next page,
\* after a short read that page is the last image page; a read error makes
\* it return IoError, a missing file NoEntry, and then no process is made.
C25_LoadOutcomes ==
    vmobs.op = "do_load" =>
        /\ Contiguous(vmobs.image)
        /\ Loaded =>
               /\ Len(vmobs.image) = vmobs.file.file_size \div PAGE_SIZE + 1
               /\ \A k \in 1 .. Len(vmobs.image) :
                      is_valid(vmap, vmobs.image[k] - USER_IMG_BASE)
        /\ ReadError => vmobs.ret = "IoError" /\ ~vmobs.alive
        /\ ~vmobs.file.present => vmobs.ret = "NoEntry" /\ ~vmobs.alive


\* One core, the callers of GlobalScheduler::switch, and a system call that
\* changes the live trap frame of the running process (sys_getpid).
NextQueue ==
    \/ Add(0)
    \/ Start(0)
    \/ SwitchFresh(0)
    \/ TimerIrq(0)
    \/ SysGetpid(0)
    \/ SysExit(0)
    \/ SwitchWaiting(0)
    \/ SwitchTo(0)

SpecQueue == InitSchedOnly /\ [][NextQueue]_vars

(***************************************************************************)
(* Claims about the scheduler's queue operations                           *)
(***************************************************************************)
\* the positions of q that hold a Running process whose Id is the frame's
Matching(q, frame) ==
    {i \in 1 .. Len(q) : /\ q[i].context.tpidr_el0 = frame.tpidr_el0
                          /\ q[i].state = Running}

\* q2 is q with the process at position i taken out and p put at the tail
MovedToTail(q, q2, i, p) ==
    /\ Len(q2) = Len(q)
    /\ q2[Len(q2)] = p
    /\ \A j \in 1 .. Len(q) : j < i => q2[j] = q[j]
    /\ \A j \in 1 .. Len(q) : j > i => q2[j - 1] = q[j]

\* C26: Scheduler::schedule_out(new_state, tf) returns false and leaves the
\* queue unchanged when no Running process has the Id of tf; otherwise it
\* returns true, exactly that process gets new_state and a saved frame equal
\* to tf and is moved to the tail, and all other processes keep their
\* relative order, states and saved frames.
C26_ScheduleOut ==
    [][Called("schedule_out") =>
          LET frame == tf'[sret'.core]
              M     == Matching(processes, frame)
          IN  IF M = {}
              THEN ~sret'.ok /\ processes' = processes
              ELSE /\ sret'.ok
                   /\ Cardinality(M) = 1
                   /\ \A i \in M :
                         MovedToTail(processes, processes', i,
                                     [context |-> frame, state |-> sret'.was])]_vars

\* schedule_out has moved the running process of a queue of two to the tail
\* and saved a frame that differs from the one saved before
C26_Witness ==
    /\ sret.op = "schedule_out" /\ sret.ok
    /\ Len(processes) = 2
    /\ processes[2].context = tf[sret.core]
    /\ processes[2].context.x0 = processes[2].context.tpidr_el0
    /\ processes[2].state = sret.was


\* the positions of the processes of q that is_ready accepts at time t
ReadyAt(q, t) == {i \in 1 .. Len(q) : is_ready(q[i], t)}

\* C27: Scheduler::switch_to(tf) selects the first process in queue order
\* for which is_ready returns true: it is moved to the head and set Running,
\* its saved frame is copied into tf, its Id (the tpidr_el0 of tf afterwards)
\* is returned and the other processes keep their relative order; if no
\* process is ready it returns None and leaves tf and the queue order as they
\* were.
C27_SwitchTo ==
    [][Called("switch_to") =>
          LET c == sret'.core
              R == ReadyAt(processes, now)
          IN  IF R = {}
              THEN /\ sret'.id = NONE
                   /\ tf'[c] = tf[c]
                   /\ Ids(processes') = Ids(processes)
              ELSE \E i \in R :
                      /\ \A j \in R : i <= j
                      /\ sret'.id = processes[i].context.tpidr_el0
                      /\ processes'[1].state = Running
                      /\ processes'[1].context
                            = is_ready_after(processes[i], now).context
                      /\ tf'[c] = processes'[1].context
                      /\ tf'[c].tpidr_el0 = sret'.id
                      /\ Ids(Tail(processes')) = Ids(remove(processes, i))]_vars

\* switch_to has selected a process that was Waiting, in a queue where another
\* process still waits, and tf holds the frame of the selected one
C27_Witness ==
    /\ sret.op = "switch_to" /\ sret.ok /\ sret.from = "Waiting"
    /\ Len(processes) = 2
    /\ processes[2].state.kind = "Waiting"
    /\ tf[sret.core] = processes[1].context
    /\ sret.id = processes[1].context.tpidr_el0


\* One core: processes are added, run, are preempted, and kill is called for
\* the running process or, from kmain, with a frame that matches none.
NextKill ==
    \/ Add(0)
    \/ Start(0)
    \/ TimerIrq(0)
    \/ SysGetpid(0)
    \/ Kill(0)
    \/ KillFresh(0)
    \/ SwitchTo(0)

SpecKill == InitSchedOnly /\ [][NextKill]_vars

\* the Ids of the processes in q
IdSet(q) == {q[i].context.tpidr_el0 : i \in 1 .. Len(q)}

\* C28: the process that Scheduler::kill(tf) removes from the queue is always
\* the one whose Id equals tf.tpidr_el0, and kill returns that Id; kill never
\* removes any other process, also when no Running process matches tf.
C28_KillOnlyKilled ==
    [][Called("kill") =>
          LET id == tf'[sret'.core].tpidr_el0
          IN  /\ IdSet(processes) \ IdSet(processes') \subseteq {id}
              /\ sret'.id \in {NONE, id}]_vars


\* Every core, every operation of GlobalScheduler: add, start, switch (from
\* the timer interrupt and from sys_exit), the loop of switch_to, and kill,
\* for the running process or with a frame that matches none.
NextHead ==
    \/ Add(0)
    \/ \E c \in Cores : Start(c)
    \/ \E c \in Cores : TimerIrq(c)
    \/ \E c \in Cores : SysExit(c)
    \/ \E c \in Cores : Kill(c)
    \/ \E c \in Cores : KillFresh(c)
    \/ \E c \in Cores : SwitchTo(c)

SpecHead == InitSchedOnly /\ [][NextHead]_vars

\* the positions of the queue that hold a Running process
RunningAt == {i \in 1 .. Len(processes) : processes[i].state = Running}

\* the cores that have left kmain for the scheduler
Started == {c \in Cores : pc[c] # "boot"}

\* C29: in every reachable state of the scheduler, if some process in the
\* queue is Running then the process at the head is Running; while a single
\* core runs processes at most one process is Running, and it is the head.
C29_HeadRunning ==
    /\ RunningAt # {} => 1 \in RunningAt
    /\ Cardinality(Started) <= 1 => RunningAt \subseteq {1}

\* two processes are Running, one on each core, after one of them was
\* preempted and selected again
C29_Witness ==
    /\ RunningAt = {1, 2}
    /\ \A c \in Cores : pc[c] = "user" /\ trap[c].armed
    /\ sret.op = "switch_to" /\ sret.ok
    /\ tf[sret.core].tpidr_el0 = processes[1].context.tpidr_el0
    /\ processes[1].context.tpidr_el0 > processes[2].context.tpidr_el0


\* how many processes of q have the Id id
IdCount(q, id) == Cardinality({i \in 1 .. Len(q) : q[i].context.tpidr_el0 = id})

\* C36: in every reachable scheduler state the Ids (context.tpidr_el0) of the
\* queued processes are pairwise distinct and each lies between 1 and
\* last_id; schedule_out and switch_to leave every queued process its Id, and
\* kill leaves the processes it does not remove theirs.
C36_IdsStable ==
    /\ [](\A id \in IdSet(processes) :
             /\ IdCount(processes, id) = 1
             /\ 1 <= id /\ id <= last_id)
    /\ [][/\ (Called("schedule_out") \/ Called("switch_to")) =>
                 /\ Len(processes') = Len(processes)
                 /\ IdSet(processes') = IdSet(processes)
          /\ Called("kill") =>
                 /\ Len(processes') >= Len(processes) - 1
                 /\ IdSet(processes') \subseteq IdSet(processes)]_vars

\* C36 witness: the second core has scheduled out its process, the younger of
\* two, while the first core runs the other
C36_Witness ==
    /\ sret.op = "schedule_out" /\ sret.ok /\ sret.core = 1
    /\ Len(processes) = 2
    /\ processes[1].state = Running
    /\ processes[2].context.tpidr_el0 = 2
    /\ processes[1].context.tpidr_el0 = 1


\* the cores that execute a process: from the switch_to that selected it to
\* the core's next schedule_out or kill
Executing == {c \in Cores : pc[c] = "user"}

\* C37: with several cores calling switch and kill through the scheduler
\* mutex no process is dispatched to two cores at once: while a core executes
\* the process its switch_to returned, no switch_to of another core returns
\* that process, and the Running processes are never more than the cores.
C37_NoDoubleDispatch ==
    /\ [](/\ \A c \in Executing : \A d \in Executing :
                c # d => tf[c].tpidr_el0 # tf[d].tpidr_el0
          /\ Cardinality(RunningAt) <= Cardinality(Executing)
          /\ Cardinality(RunningAt) <= Cardinality(Cores))
    /\ [][(Called("switch_to") /\ sret'.id # NONE) =>
             \A d \in Executing :
                 d # sret'.core => tf[d].tpidr_el0 # sret'.id]_vars

\* C37 witness: switch_to on core 0 has returned process 2 while core 1
\* executes process 1
C37_Witness ==
    /\ sret.op = "switch_to" /\ sret.core = 0 /\ sret.id = 2
    /\ Executing = Cores
    /\ tf[0].tpidr_el0 = 2
    /\ tf[1].tpidr_el0 = 1
    /\ Cardinality(RunningAt) = 2


\* ---- context preservation ----
\* the frame with the registers a sleep poll writes blanked
SansPollRegs(frame) == [frame EXCEPT !.x0 = 0, !.x7 = 0]

\* C38: when switch_to selects a process that a schedule_out suspended, the
\* frame written into tf equals, field for field, the frame that schedule_out
\* was passed if the new state was Ready; if it was Waiting the two differ at
\* most in x0 and x7, the registers the poll of sleep writes.
C38_ContextPreserved ==
    [][Called("switch_to") /\ sret'.ok =>
          \A s \in sret.saved : s.id = sret'.id =>
             /\ s.as = "Ready" => tf'[sret'.core] = s.frame
             /\ s.as = "Waiting" =>
                   SansPollRegs(tf'[sret'.core]) = SansPollRegs(s.frame)]_vars

\* C38 witness: a process that slept has been resumed with x0 and x7
\* rewritten, the timer has then suspended it as Ready with that frame, and
\* switch_to has selected it again: the frame restored has x7 = 1.
C38_Witness ==
    /\ sret.op = "switch_to"
    /\ sret.ok
    /\ sret.was = Ready
    /\ tf[sret.core].x7 = 1
    /\ tf[sret.core].tpidr_el0 = sret.id

\* a sleeper is restored with a frame that differs from the one saved
C38_WitnessWaiting ==
    /\ sret.op = "switch_to"
    /\ sret.ok
    /\ sret.was.kind = "Waiting"
    /\ tf[sret.core].x7 = 1

\* ---- the scheduler's lock and the idle path ----
\* Here a critical section is two steps: Mutex::lock as critical() calls it
\* (scheduler.rs:39), then the closure together with the drop of the guard
\* when critical() returns (scheduler.rs:40-41).

\* what the lock is free to be taken for on core c: the loop of switch_to, a
\* switch or a kill for the process running on the core, an add from kmain
WantsLock(c) ==
    \/ pc[c] \in {"switch_to", "user"}
    \/ pc[c] = "boot" /\ Len(processes) < MaxProcs

\* Mutex::lock on core c returns: the mutex was free, the core holds it now
Lock(c) ==
    /\ mutex = NONE
    /\ WantsLock(c)
    /\ mutex' = c
    /\ UNCHANGED <<allocVars, schedVars, vmVars, xmVars, fsVars, linkVars>>

\* scheduler.rs:45-47, GlobalScheduler::add from kmain on core c
CriticalAdd(c) ==
    /\ mutex = c
    /\ pc[c] = "boot"
    /\ LET r == add(processes, last_id, NewProcess)
       IN  /\ processes' = r.processes
           /\ last_id' = r.last_id
           /\ SObserve("add", c, r.id, r.id # NONE)
    /\ rr' = RROff
    /\ mutex' = NONE
    /\ UNCHANGED <<tf, pc, now, killed, trap, allocVars, vmVars, xmVars, fsVars, linkVars>>

\* scheduler.rs:53-56, the first critical section of switch(Ready, tf) as
\* timerc_handler calls it on core c; the loop of switch_to follows
CriticalScheduleOut(c) ==
    /\ mutex = c
    /\ pc[c] = "user"
    /\ LET r == schedule_out(processes, timerc_handler.state, tf[c])
       IN  /\ processes' = r.processes
           /\ SObserveWas("schedule_out", c, NONE, r.ok, timerc_handler.state)
    /\ pc' = [pc EXCEPT ![c] = "switch_to"]
    /\ Switching(c, "irq", tf[c])
    /\ rr' = RROff
    /\ mutex' = NONE
    /\ UNCHANGED <<last_id, tf, now, killed, allocVars, vmVars, xmVars, fsVars, linkVars>>

\* scheduler.rs:86-88, the critical section of kill(tf) as sys_exit calls it
\* on core c; the loop of switch_to follows
CriticalKill(c) ==
    /\ mutex = c
    /\ pc[c] = "user"
    /\ LET r == kill(processes, tf[c])
       IN  /\ processes' = r.processes
           /\ SObserve("kill", c, r.id, schedule_out(processes, Dead, tf[c]).ok)
    /\ killed' = IF schedule_out(processes, Dead, tf[c]).ok
                 THEN killed \cup {tf[c].tpidr_el0}
                 ELSE killed
    /\ pc' = [pc EXCEPT ![c] = "switch_to"]
    /\ Switching(c, "exit", tf[c])
    /\ rr' = RROff
    /\ mutex' = NONE
    /\ UNCHANGED <<last_id, tf, now, allocVars, vmVars, xmVars, fsVars, linkVars>>

\* a loop of switch_to that goes to wfi with the guard still alive
CriticalSwitchToKeepsGuard(c) ==
    /\ mutex = c
    /\ pc[c] = "switch_to"
    /\ LET r == switch_to(processes, tf[c], now)
       IN  /\ processes' = r.processes
           /\ tf' = [tf EXCEPT ![c] = r.tf]
           /\ pc' = [pc EXCEPT ![c] = IF r.id = NONE THEN "wfi" ELSE "user"]
           /\ trap' = IF r.id = NONE THEN trap
                      ELSE [trap EXCEPT ![c].from = "", ![c].id = NONE]
           /\ SObserve("switch_to", c, r.id, r.id # NONE)
           /\ mutex' = IF r.id = NONE THEN c ELSE NONE
    /\ rr' = RROff
    /\ UNCHANGED <<last_id, now, killed, allocVars, vmVars, xmVars, fsVars, linkVars>>

\* scheduler.rs:63-81, one round of the loop of GlobalScheduler::switch_to on
\* core c: critical() runs Scheduler::switch_to and returns, which drops the
\* guard; then the Id is returned, or the core executes wfi
CriticalSwitchTo(c) ==
    /\ mutex = c
    /\ pc[c] = "switch_to"
    /\ LET r == switch_to(processes, tf[c], now)
       IN  /\ processes' = r.processes
           /\ tf' = [tf EXCEPT ![c] = r.tf]
           /\ pc' = [pc EXCEPT ![c] = IF r.id = NONE THEN "wfi" ELSE "user"]
           /\ trap' = IF r.id = NONE THEN trap
                      ELSE [trap EXCEPT ![c].from = "", ![c].id = NONE]
           /\ SObserve("switch_to", c, r.id, r.id # NONE)
    /\ rr' = RROff
    /\ mutex' = NONE
    /\ UNCHANGED <<last_id, now, killed, allocVars, vmVars, xmVars, fsVars, linkVars>>

\* scheduler.rs:79, wfi returns on core c: an interrupt is pending (the
\* core's timer, armed by start); the loop goes round
Wake(c) ==
    /\ pc[c] = "wfi"
    /\ trap[c].armed
    /\ pc' = [pc EXCEPT ![c] = "switch_to"]
    /\ UNCHANGED <<processes, last_id, tf, now, sret, killed, rr, trap,
                   allocVars, vmVars, libVars>>

\* GlobalScheduler::start called on core c, outside any critical section
StartUnlocked(c) == mutex # c /\ Start(c)

\* Every core: kmain adds processes, each core calls start(), takes timer
\* interrupts, runs the loop of switch_to and idles; a process may exit.
NextIdle ==
    \/ \E c \in Cores : Lock(c)
    \/ \E c \in Cores : CriticalAdd(c)
    \/ \E c \in Cores : StartUnlocked(c)
    \/ \E c \in Cores : CriticalScheduleOut(c)
    \/ \E c \in Cores : CriticalKill(c)
    \/ \E c \in Cores : CriticalSwitchTo(c)
    \/ \E c \in Cores : Wake(c)

AnyReady == \E i \in 1 .. Len(processes) : is_ready(processes[i], now)

\* the critical section core d holds the mutex for
CriticalSection(d) ==
    CriticalAdd(d) \/ CriticalScheduleOut(d) \/ CriticalKill(d) \/ CriticalSwitchTo(d)

\* an idle core's timer interrupt arrives, a core that holds the mutex runs
\* its critical section to the end, and a core that spins on the mutex while
\* it is free again and again gets it
FairIdle ==
    \A c \in Cores :
       /\ WF_vars(Wake(c))
       /\ WF_vars(CriticalSection(c))
       /\ SF_vars(Lock(c) /\ pc[c] = "switch_to")

SpecIdleFair == InitSchedOnly /\ [][NextIdle]_vars /\ FairIdle

NextXmodem == ReadPacket

InitXmodemOnly ==
    new_at(<<8, 32>>) /\ InitSched /\ InitVm /\ InitXmodem /\ InitFs /\ InitLock /\ InitLink
SpecXmodem == InitXmodemOnly /\ [][NextXmodem]_vars


\* the last byte the latest read_packet wrote
LastWritten == xmobs.tx[Len(xmobs.tx)]

NextCache == GetMut \/ Get \/ WriteSector

SpecCache == InitSchedOnly /\ [][NextCache]_vars

\* C31: after CachedPartition::get_mut(sector) returns Ok, the cache entry
\* of that sector is marked dirty.
C31_GetMutDirty ==
    (cobs.op = "get_mut" /\ cobs.ret = "Ok")
        => (cobs.sector \in DOMAIN cache /\ cache[cobs.sector].dirty)


(***************************************************************************)
(* Pages of the bin allocator in user page tables                          *)
(***************************************************************************)
\* the heap starts at a page boundary, or 4 KiB above one, and ends with the
\* address space
InitPages ==
    /\ \E start \in {Page_SIZE, Page_SIZE + 4096} : new_at(<<start, USIZE_MAX>>)
    /\ InitSched /\ InitVm /\ InitXm /\ InitFs /\ InitLock /\ InitLink

NextPages == PageAlloc

SpecPages == InitPages /\ [][NextPages]_vars

\* the valid descriptors of the table
ValidEntries ==
    {s \in (0 .. L3_TABLES - 1) \X (0 .. L3_ENTRIES - 1) : vmap[s[1]][s[2]].valid}

\* C34: every page UserPageTable::alloc maps is a distinct 64 KiB-aligned
\* 64 KiB region: the address the allocator returned is 64 KiB-aligned, the
\* descriptor's ADDR field shifted left by 16 is that address, and no two
\* valid descriptors reference the same or overlapping memory.
C34_DistinctPages ==
    /\ \A g \in vmobs.given :
          /\ g.ptr % Page_SIZE = 0
          /\ locate(g.va - USER_IMG_BASE).panic = FALSE
          /\ vmap[locate(g.va - USER_IMG_BASE).l2][locate(g.va - USER_IMG_BASE).l3].addr
                 * Page_SIZE = g.ptr
    /\ \A g \in vmobs.given : \A h \in vmobs.given :
          g # h => (g.ptr + Page_SIZE <= h.ptr \/ h.ptr + Page_SIZE <= g.ptr)
    /\ \A s \in ValidEntries : \A t \in ValidEntries :
          s # t => vmap[s[1]][s[2]].addr # vmap[t[1]][t[2]].addr


(***************************************************************************)
(* The kernel page table                                                   *)
(***************************************************************************)
NextKern == KernNew \/ VmNew \/ VmAlloc \/ VmDrop

SpecKern == InitSchedOnly /\ [][NextKern]_vars

\* the descriptor PageTable::locate names for a page-aligned address below
\* the end of the three tables
EntryAt(pt, p) == pt[locate(p).l2][locate(p).l3]

Pages == {p \in 0 .. IO_BASE_END - 1 : p % PAGE_SIZE = 0}
Ram(p) == p + PAGE_SIZE <= kern.memory_map_end
Io(p) == IO_BASE <= p /\ p < IO_BASE_END

\* C35: after KernPageTable::new, the L3 entry of every page-aligned p with
\* p + PAGE_SIZE <= memory_map_end is valid and maps p to p as normal,
\* inner-shareable, kernel-RW memory; the entry of every page of
\* [IO_BASE, IO_BASE_END) maps p to p as device, outer-shareable, kernel-RW
\* memory; every other L3 entry is invalid; and every valid L3 entry of the
\* kernel and of a user page table has the access flag set.
C35_KernelMap ==
    /\ kern.built =>
          \A p \in Pages :
              /\ Ram(p) => EntryAt(kern.l3, p) = KernEntry("Mem", "ISh", p \div PAGE_SIZE)
              /\ Io(p) => EntryAt(kern.l3, p) = KernEntry("Dev", "OSh", p \div PAGE_SIZE)
              /\ (~Ram(p) /\ ~Io(p)) => ~EntryAt(kern.l3, p).valid
    /\ \A p \in Pages :
          /\ EntryAt(kern.l3, p).valid => EntryAt(kern.l3, p).af = 1
          /\ EntryAt(vmap, p).valid => EntryAt(vmap, p).af = 1

\* C35 witness: a kernel table built for some RAM, with a RAM page, a
\* peripheral page and an unmapped page, beside a user table with a page
C35_Witness ==
    /\ kern.built
    /\ \E p \in Pages : Ram(p)
    /\ \E p \in Pages : ~Ram(p) /\ ~Io(p)
    /\ \E p \in Pages : EntryAt(vmap, p).valid

\* ---- XMODEM: transmit paired with receive ----
\* a transfer of any of the inputs, in a build with or without overflow checks
InitTransfer ==
    /\ new_at(<<8, 32>>) /\ InitSched /\ InitVm /\ InitXm /\ InitFs /\ InitLock
    /\ \E data \in Datas, overflow_checks \in BOOLEAN :
          link = Link_new(data, overflow_checks)

NextTransfer ==
    \/ TransmitNext
    \/ TransmitHandshake
    \/ TransmitAck
    \/ TransmitEotNak
    \/ TransmitEotAck
    \/ ReceiveNext
    \/ ReceiveFirst
    \/ ReceiveEot

SpecTransfer == InitTransfer /\ [][NextTransfer]_vars

\* data zero-padded to a multiple of PACKET_LEN bytes
Padded(data) ==
    [i \in 1 .. ((Len(data) + PACKET_LEN - 1) \div PACKET_LEN) * PACKET_LEN |->
        IF i <= Len(data) THEN data[i] ELSE 0]

\* both calls have returned
TransferDone == link.tpc = "done" /\ link.rpc = "done"

\* C40: over the lossless line transmit and receive go on until both have
\* returned, both return Ok, the receiver's output is then the sender's data
\* zero-padded to whole packets, and the receiver writes the NAK of the
\* initial handshake only while it has received nothing.
C40_TransmitReceive ==
    /\ link.tret \in {"", "Ok"}
    /\ link.rret \in {"", "Ok"}
    /\ TransferDone \/ ENABLED NextTransfer
    /\ TransferDone =>
          /\ link.into = Padded(link.data)
          /\ link.written = Len(link.data)
          /\ link.received = Len(Padded(link.data))
    /\ \A i \in 1 .. Len(link.handshakes) : link.handshakes[i] = 0

====
